---- MODULE Spec2Model ----
(***************************************************************************)
(* A model of the data pipeline of cemint_insights:                        *)
(*   src/src/data_pipeline/transformers.py  (table transforms)             *)
(*   src/src/data_pipeline/loaders.py       (CSV / run-directory loaders)  *)
(*   src/src/data_pipeline/pipelines.py     (orchestration, command line)  *)
(*                                                                         *)
(* Tables (pandas DataFrames) are records [n, col]: n rows, col a function *)
(* from column name to a column [dtype, v, root].  A cell is a tuple:      *)
(*   <<>>      null (NaN / NaT / None)                                     *)
(*   <<p, q>>  the rational p/q (q > 0, lowest terms); <<1,0>>, <<-1,0>>   *)
(*             are +inf and -inf                                           *)
(*   <<s>>     the string s (object columns, timestamps before parsing)    *)
(*   <<h, d, w, m>> a parsed timestamp (hour, day, weekday, month)         *)
(* A numeric column's field root = <<a, b>> says that every value of the   *)
(* column is its rational cell divided by sqrt(a/b): StandardScaler        *)
(* divides by a standard deviation, the square root of a rational, and     *)
(* this keeps the arithmetic exact.  root = <<1,1>> is a plain column.     *)
(***************************************************************************)
EXTENDS Integers, Sequences, FiniteSets, TLC

VARIABLES
    args,           \* the arguments of the call under way (a record)
    ret,            \* what the call returned or raised
    pc,             \* position inside transform_pipeline / the run
    df,             \* the local variable df of transform_pipeline
    caller_df,      \* the caller's table object, as it is now
    steps,          \* the transforms called so far, in order
    fs,             \* the directory tree the run reads
    todo,           \* the (stage, file) pairs the run's loop has yet to visit
    files,          \* output files written so far: path -> content
    processed_data, \* the mapping the run collects
    log,            \* error / warning records logged so far
    env,            \* the installed libraries: how np.percentile treats an empty array
    datasets        \* what the command line's loader returned

vars == <<args, ret, pc, df, caller_df, steps, fs, todo, files, processed_data, log, env,
          datasets>>

----------------------------------------------------------------------------
(* Bounds of the model *)

\* a table has 0..MaxRows rows
MaxRows == 2
\* a numeric input cell is null or one of 0..MaxVal
MaxVal == 1

----------------------------------------------------------------------------
(* Rational arithmetic on cells *)

Null == <<>>

Abs(x) == IF x < 0 THEN -x ELSE x

Sign(x) == IF x < 0 THEN -1 ELSE IF x = 0 THEN 0 ELSE 1

RECURSIVE GCD(_, _)
GCD(a, b) == IF b = 0 THEN a ELSE GCD(b, a % b)

\* the cell of p/q: lowest terms, q > 0; x/0 is an infinity, 0/0 is NaN
Rat(p, q) ==
    IF q = 0 THEN (IF p = 0 THEN Null ELSE <<Sign(p), 0>>)
    ELSE LET g == GCD(Abs(p), Abs(q))
             s == IF q < 0 THEN -1 ELSE 1
         IN  <<(s * p) \div g, Abs(q) \div g>>

IsNum(c) == Len(c) = 2

RAdd(x, y) == Rat(x[1] * y[2] + y[1] * x[2], x[2] * y[2])
RSub(x, y) == Rat(x[1] * y[2] - y[1] * x[2], x[2] * y[2])
RMul(x, y) == Rat(x[1] * y[1], x[2] * y[2])
RDiv(x, y) == Rat(x[1] * y[2], x[2] * y[1])
RLess(x, y) == x[1] * y[2] < y[1] * x[2]
RLeq(x, y) == x[1] * y[2] <= y[1] * x[2]

RECURSIVE RSum(_)
RSum(s) == IF s = <<>> THEN <<0, 1>> ELSE RAdd(Head(s), RSum(Tail(s)))

\* the cells of v that are not null (Series.dropna)
DropNa(v) == SelectSeq(v, LAMBDA c : c # Null)

\* Series.mean(): nulls are skipped; NaN when nothing is left
Mean(v) ==
    LET nn == DropNa(v)
    IN  IF nn = <<>> THEN Null ELSE RDiv(RSum(nn), <<Len(nn), 1>>)

\* Series.median(): nulls are skipped; NaN when nothing is left
Median(v) ==
    LET nn == SortSeq(DropNa(v), RLess)
        k  == Len(nn)
    IN  IF k = 0 THEN Null
        ELSE IF k % 2 = 1 THEN nn[(k + 1) \div 2]
        ELSE RDiv(RAdd(nn[k \div 2], nn[k \div 2 + 1]), <<2, 1>>)

----------------------------------------------------------------------------
(* Tables *)

Column(dtype, v) == [dtype |-> dtype, v |-> v, root |-> <<1, 1>>]

Columns(t) == DOMAIN t.col

\* df.select_dtypes(include=[np.number]).columns
NumericCols(t) == {c \in Columns(t) : t.col[c].dtype = "num"}

\* t with column c set to column x (df[c] = x): added when new
SetCol(t, c, x) ==
    [t EXCEPT !.col = [k \in Columns(t) \cup {c} |-> IF k = c THEN x ELSE t.col[k]]]

HasNull(v) == \E i \in 1..Len(v) : v[i] = Null

\* timestamps as they stand in a CSV file: two that parse, one that does not
TsStrings == {"2025-09-17 23:10:01", "2025-01-06 00:00:00", "not-a-date"}

\* timestamp columns of n rows: all equal, alternating, or with a bad first row
TsColumns(n) ==
    { [i \in 1..n |-> <<"2025-09-17 23:10:01">>],
      [i \in 1..n |-> IF i % 2 = 1 THEN <<"2025-01-06 00:00:00">>
                                   ELSE <<"2025-09-17 23:10:01">>],
      [i \in 1..n |-> IF i = 1 THEN <<"not-a-date">>
                               ELSE <<"2025-09-17 23:10:01">>] }

NumCells == {Null} \cup {<<x, 1>> : x \in 0..MaxVal}

\* a table read from a CSV file.  read_csv gives a column of numbers (or of
\* nothing but blanks) a numeric dtype and a column of text the object dtype;
\* a file with a header and no rows gives every column the object dtype.
MkTable(n, names, ts, power, tph) ==
    [n   |-> n,
     col |-> [c \in names |->
                IF c = "timestamp" THEN Column("obj", ts)
                ELSE IF c = "mill_power_kwh"
                     THEN Column(IF n = 0 THEN "obj" ELSE "num", power)
                ELSE Column(IF n = 0 THEN "obj" ELSE "num", tph)]]

CsvColumns == {"timestamp", "mill_power_kwh", "throughput_tph"}

\* the input tables of the model
InputTables ==
    UNION { { MkTable(n, names, ts, power, tph) :
                names \in SUBSET CsvColumns,
                ts \in TsColumns(n),
                power \in [1..n -> NumCells],
                tph \in {[i \in 1..n |-> <<x, 1>>] : x \in {0, MaxVal}} }
            : n \in 0..MaxRows }

\* the tables transform_pipeline is called with: those whose nulls, if any,
\* stand in the first row alone or in every row
PipelineTables ==
    {t \in InputTables :
        \A c \in Columns(t) :
            \/ \A i \in 2..t.n : t.col[c].v[i] # Null
            \/ \A i \in 1..t.n : t.col[c].v[i] = Null}

----------------------------------------------------------------------------
(* Results of a call *)

\* the call returned table t; arg is the argument object as the call left it
Returned(t, arg) == [err |-> "none", df |-> t, input |-> arg]

\* the call raised e; arg is the argument object as the call left it
Raised(e, arg) == [err |-> e, input |-> arg]

\* no call has ended yet
Pending == [err |-> "pending"]

----------------------------------------------------------------------------
(* transformers.py: fill_missing_values *)

\* mutant of FillNa: the filled column is computed and thrown away
FillNaDiscarded(v, x) == v

\* Series.fillna(x): a null x fills nothing
FillNa(v, x) == [i \in 1..Len(v) |-> IF v[i] = Null THEN x ELSE v[i]]

FillMethods == {"mean", "median", "zero", "mode"}

FillValue(v, method) ==
    IF method = "mean" THEN Mean(v)
    ELSE IF method = "median" THEN Median(v)
    ELSE <<0, 1>>

\* mutant of FillMissingValues: without df.copy(), the argument itself is filled
FillMissingValuesInPlace(t, method) ==
    IF NumericCols(t) = {} THEN Returned(t, t)
    ELSE IF method \notin {"mean", "median", "zero"} THEN Raised("ValueError", t)
    ELSE LET filled == [t EXCEPT !.col = [c \in Columns(t) |->
                          IF c \in NumericCols(t)
                          THEN [t.col[c] EXCEPT !.v = FillNa(@, FillValue(t.col[c].v, method))]
                          ELSE t.col[c]]]
         IN  Returned(filled, filled)

FillMissingValues(t, method) ==
    IF NumericCols(t) = {} THEN Returned(t, t)
    ELSE IF method \notin {"mean", "median", "zero"} THEN Raised("ValueError", t)
    ELSE Returned(
           [t EXCEPT !.col = [c \in Columns(t) |->
               IF c \in NumericCols(t)
               THEN [t.col[c] EXCEPT !.v = FillNa(@, FillValue(t.col[c].v, method))]
               ELSE t.col[c]]],
           t)

----------------------------------------------------------------------------
(* transformers.py: add_time_features *)

\* pd.to_datetime(..., errors="coerce") on one cell: the parsed timestamp
\* <<hour, day, weekday, month>>, or NaT for text that is no date
ToDatetime(c) ==
    IF c = <<"2025-09-17 23:10:01">> THEN <<23, 17, 2, 9>>
    ELSE IF c = <<"2025-01-06 00:00:00">> THEN <<0, 6, 0, 1>>
    ELSE Null

\* mutant of DtField: the field after the one asked for
DtFieldShifted(v, k) ==
    [i \in 1..Len(v) |-> IF v[i] = Null THEN Null ELSE <<v[i][(k % 4) + 1], 1>>]

\* Series.dt.<field>: field k of each timestamp, null for NaT
DtField(v, k) == [i \in 1..Len(v) |-> IF v[i] = Null THEN Null ELSE <<v[i][k], 1>>]

\* mutant of AddTimeFeatures: rows whose timestamp does not parse are dropped
AddTimeFeaturesDropsBadRows(t, timestamp_col) ==
    IF timestamp_col \notin Columns(t) THEN Raised("KeyError", t)
    ELSE LET keep == SelectSeq([i \in 1..t.n |-> i],
                               LAMBDA i : ToDatetime(t.col[timestamp_col].v[i]) # Null)
             kept == [n   |-> Len(keep),
                      col |-> [c \in Columns(t) |->
                                 [t.col[c] EXCEPT !.v = [j \in 1..Len(keep) |-> @[keep[j]]]]]]
             ts == [i \in 1..kept.n |-> ToDatetime(kept.col[timestamp_col].v[i])]
             t1 == SetCol(kept, timestamp_col, Column("datetime", ts))
             t2 == SetCol(t1, "hour", Column("num", DtField(ts, 1)))
             t3 == SetCol(t2, "day", Column("num", DtField(ts, 2)))
             t4 == SetCol(t3, "weekday", Column("num", DtField(ts, 3)))
             t5 == SetCol(t4, "month", Column("num", DtField(ts, 4)))
         IN  Returned(t5, t)

\* mutant of AddTimeFeatures: without df.copy(), the columns are set on the argument
AddTimeFeaturesInPlace(t, timestamp_col) ==
    IF timestamp_col \notin Columns(t) THEN Raised("KeyError", t)
    ELSE LET ts == [i \in 1..t.n |-> ToDatetime(t.col[timestamp_col].v[i])]
             t1 == SetCol(t, timestamp_col, Column("datetime", ts))
             t2 == SetCol(t1, "hour", Column("num", DtField(ts, 1)))
             t3 == SetCol(t2, "day", Column("num", DtField(ts, 2)))
             t4 == SetCol(t3, "weekday", Column("num", DtField(ts, 3)))
             t5 == SetCol(t4, "month", Column("num", DtField(ts, 4)))
         IN  Returned(t5, t5)

AddTimeFeatures(t, timestamp_col) ==
    IF timestamp_col \notin Columns(t) THEN Raised("KeyError", t)
    ELSE LET ts == [i \in 1..t.n |-> ToDatetime(t.col[timestamp_col].v[i])]
             t1 == SetCol(t, timestamp_col, Column("datetime", ts))
             t2 == SetCol(t1, "hour", Column("num", DtField(ts, 1)))
             t3 == SetCol(t2, "day", Column("num", DtField(ts, 2)))
             t4 == SetCol(t3, "weekday", Column("num", DtField(ts, 3)))
             t5 == SetCol(t4, "month", Column("num", DtField(ts, 4)))
         IN  Returned(t5, t)

----------------------------------------------------------------------------
(* sklearn.preprocessing MinMaxScaler / StandardScaler, as the transforms use them *)

RMin(s) == CHOOSE x \in {s[i] : i \in 1..Len(s)} : \A j \in 1..Len(s) : RLeq(x, s[j])
RMax(s) == CHOOSE x \in {s[i] : i \in 1..Len(s)} : \A j \in 1..Len(s) : RLeq(s[j], x)

\* the variance of the non-null cells with ddof degrees of freedom taken off
\* (NaN when too few cells are left)
Variance(v, ddof) ==
    LET nn == DropNa(v)
        m  == Mean(v)
        sq == [i \in 1..Len(nn) |-> RMul(RSub(nn[i], m), RSub(nn[i], m))]
    IN  IF Len(nn) - ddof <= 0 THEN Null ELSE RDiv(RSum(sq), <<Len(nn) - ddof, 1>>)

\* the largest r in lo..hi with r * r <= x, by bisection
RECURSIVE Bisect(_, _, _)
Bisect(x, lo, hi) ==
    IF lo = hi THEN lo
    ELSE LET mid == (lo + hi + 1) \div 2
         IN  IF mid <= x \div mid THEN Bisect(x, mid, hi) ELSE Bisect(x, lo, mid - 1)

Root(x) == IF x = 0 THEN 0 ELSE Bisect(x, 1, x)
IsSquare(x) == Root(x) * Root(x) = x

\* a numeric column in its plain form when it has one: a column of zeros and
\* nulls, or one divided by the square root of a square
Plain(c) ==
    IF \A i \in 1..Len(c.v) : c.v[i] = Null \/ c.v[i][1] = 0
    THEN [c EXCEPT !.root = <<1, 1>>]
    ELSE IF IsSquare(c.root[1]) /\ IsSquare(c.root[2])
    THEN [c EXCEPT !.root = <<1, 1>>,
                   !.v = [i \in 1..Len(c.v) |->
                            IF c.v[i] = Null THEN Null
                            ELSE RMul(c.v[i], <<Root(c.root[2]), Root(c.root[1])>>)]]
    ELSE c

\* mutant of FitColumn: minmax learns the mean in place of the minimum
FitColumnMeanAsMin(c, method) ==
    LET nn == DropNa(c.v)
    IN  IF nn = <<>> THEN [a |-> Null, b |-> Null, root |-> c.root]
        ELSE IF method = "minmax" THEN [a |-> Mean(c.v), b |-> RMax(nn), root |-> c.root]
        ELSE [a |-> Mean(c.v), b |-> Variance(c.v, 0), root |-> c.root]

\* what fit() learns from one column: for minmax the minimum and the maximum,
\* for standard the mean and the (population) variance, nulls left out
FitColumn(c, method) ==
    LET nn == DropNa(c.v)
    IN  IF nn = <<>> THEN [a |-> Null, b |-> Null, root |-> c.root]
        ELSE IF method = "minmax" THEN [a |-> RMin(nn), b |-> RMax(nn), root |-> c.root]
        ELSE [a |-> Mean(c.v), b |-> Variance(c.v, 0), root |-> c.root]

\* transform() of one column with what fit() learnt.  A zero range or a zero
\* variance scales by 1; nulls stay null.
TransformColumn(c, method, fit) ==
    IF fit.a = Null THEN c
    ELSE IF method = "minmax"
    THEN LET range == RSub(fit.b, fit.a)
         IN  IF range = <<0, 1>>
             THEN Plain([c EXCEPT !.v = [i \in 1..Len(c.v) |->
                            IF c.v[i] = Null THEN Null ELSE RSub(c.v[i], fit.a)]])
             ELSE [c EXCEPT !.root = <<1, 1>>,
                            !.v = [i \in 1..Len(c.v) |->
                               IF c.v[i] = Null THEN Null
                               ELSE RDiv(RSub(c.v[i], fit.a), range)]]
    ELSE IF fit.b = <<0, 1>>
         THEN Plain([c EXCEPT !.v = [i \in 1..Len(c.v) |->
                        IF c.v[i] = Null THEN Null ELSE RSub(c.v[i], fit.a)]])
         ELSE Plain([c EXCEPT !.root = fit.b,
                        !.v = [i \in 1..Len(c.v) |->
                           IF c.v[i] = Null THEN Null ELSE RSub(c.v[i], fit.a)]])

\* fit_transform refuses a table without rows, and an infinite value
ScalerRefuses(t, cols) ==
    \/ t.n = 0
    \/ \E c \in cols : \E i \in 1..t.n : IsNum(t.col[c].v[i]) /\ t.col[c].v[i][2] = 0

\* the fitted scaler: the method and, per column, what fit() learnt
FitScaler(t, cols, method) ==
    [method |-> method, params |-> [c \in cols |-> FitColumn(t.col[c], method)]]

\* scaler.fit_transform(df[cols]) written back to df[cols]
FitTransform(t, cols, method) ==
    [t EXCEPT !.col = [c \in Columns(t) |->
        IF c \in cols
        THEN TransformColumn(t.col[c], method, FitColumn(t.col[c], method))
        ELSE t.col[c]]]

----------------------------------------------------------------------------
(* transformers.py: normalize_features *)

NormalizeMethods == {"minmax", "standard", "robust"}

NormalizeFeatures(t, method) ==
    IF NumericCols(t) = {} THEN Raised("ValueError", t)
    ELSE IF method \notin {"minmax", "standard"} THEN Raised("ValueError", t)
    ELSE IF ScalerRefuses(t, NumericCols(t)) THEN Raised("ValueError", t)
    ELSE [err    |-> "none",
          df     |-> FitTransform(t, NumericCols(t), method),
          scaler |-> FitScaler(t, NumericCols(t), method),
          input  |-> t]

----------------------------------------------------------------------------
(* transformers.py: detect_anomalies *)

\* A threshold is the rational <<p, q>>, or <<p, q, a, b>> for p/q divided by
\* sqrt(a/b) (a float such as sqrt(0.5)); its square is rational either way.
ThresholdSquared(threshold) ==
    IF Len(threshold) = 2 THEN RMul(threshold, threshold)
    ELSE RMul(RMul(<<threshold[1], threshold[2]>>, <<threshold[1], threshold[2]>>),
              <<threshold[4], threshold[3]>>)

\* mutant of ZScoreExceeds: a z-score equal to the threshold is flagged too
ZScoreExceedsOrEquals(c, i, threshold) ==
    LET var == Variance(c.v, 1)
        x   == c.v[i]
        d   == RSub(x, Mean(c.v))
    IN  /\ x # Null
        /\ var # Null
        /\ ~(var = <<0, 1>> /\ d = <<0, 1>>)
        /\ \/ RLess(threshold, <<0, 1>>)
           \/ RLeq(RMul(ThresholdSquared(threshold), var), RMul(d, d))

\* mutant of ZScoreExceeds: the comparison is turned round (z-score < threshold)
ZScoreBelow(c, i, threshold) ==
    LET var == Variance(c.v, 1)
        x   == c.v[i]
        d   == RSub(x, Mean(c.v))
    IN  /\ x # Null
        /\ var # Null
        /\ ~(var = <<0, 1>> /\ d = <<0, 1>>)
        /\ ~RLess(threshold, <<0, 1>>)
        /\ RLess(RMul(d, d), RMul(ThresholdSquared(threshold), var))

\* |x - mean| / std > threshold for cell i of column c, std being pandas' sample
\* standard deviation (ddof = 1).  The z-score is NaN, and the comparison
\* false, for a null cell, for fewer than two values and for 0/0.  Squared, so
\* that no square root is taken; the column's root cancels in the quotient.
ZScoreExceeds(c, i, threshold) ==
    LET var == Variance(c.v, 1)
        x   == c.v[i]
        d   == RSub(x, Mean(c.v))
    IN  /\ x # Null
        /\ var # Null
        /\ ~(var = <<0, 1>> /\ d = <<0, 1>>)
        /\ \/ RLess(threshold, <<0, 1>>)
           \/ RLess(RMul(ThresholdSquared(threshold), var), RMul(d, d))

BoolCell(b) == IF b THEN <<"True">> ELSE <<"False">>

DetectAnomalies(t, threshold) ==
    IF NumericCols(t) = {}
    THEN Returned(SetCol(t, "is_anomaly",
                         Column("bool", [i \in 1..t.n |-> BoolCell(FALSE)])), t)
    ELSE Returned(SetCol(t, "is_anomaly",
                         Column("bool", [i \in 1..t.n |->
                            BoolCell(\E c \in NumericCols(t) :
                                        ZScoreExceeds(t.col[c], i, threshold))])), t)

----------------------------------------------------------------------------
(* transformers.py: clip_outliers *)

\* np.percentile(s, p) of the sorted, non-empty s: linear interpolation
\* between the two cells around position p/100 * (N - 1)
Percentile(s, p) ==
    LET pos  == RMul(<<p, 100>>, <<Len(s) - 1, 1>>)
        k    == pos[1] \div pos[2]
        frac == RSub(pos, <<k, 1>>)
        lo   == s[k + 1]
        hi   == s[IF k + 2 <= Len(s) THEN k + 2 ELSE Len(s)]
    IN  RAdd(lo, RMul(frac, RSub(hi, lo)))

\* np.clip(x, lower, upper) on one cell: a null cell stays null
Clip(x, lower, upper) ==
    IF x = Null THEN Null
    ELSE IF RLess(x, lower) THEN lower
    ELSE IF RLess(upper, x) THEN upper
    ELSE x

\* mutant of ClipColumn: a name that is no column fails
ClipColumnUnknownFails(t, c, lower_percentile, upper_percentile, empty_percentile) ==
    IF c \notin Columns(t) THEN [err |-> "KeyError"]
    ELSE IF t.col[c].dtype # "num" THEN [err |-> "TypeError"]
    ELSE LET nn == SortSeq(DropNa(t.col[c].v), RLess)
         IN  IF nn = <<>>
             THEN IF empty_percentile = "IndexError" THEN [err |-> "IndexError"]
                  ELSE [err |-> "none",
                        df  |-> SetCol(t, c, [t.col[c] EXCEPT
                                   !.v = [i \in 1..t.n |-> Null]])]
             ELSE [err |-> "none",
                   df  |-> SetCol(t, c, [t.col[c] EXCEPT
                              !.v = [i \in 1..t.n |->
                                 Clip(@[i], Percentile(nn, lower_percentile),
                                      Percentile(nn, upper_percentile))]])]

\* one turn of the loop over columns; how np.percentile treats an empty array
\* depends on the numpy in use: empty_percentile is "nan" or "IndexError"
ClipColumn(t, c, lower_percentile, upper_percentile, empty_percentile) ==
    IF c \notin Columns(t) THEN [err |-> "none", df |-> t]
    ELSE IF t.col[c].dtype # "num" THEN [err |-> "TypeError"]
    ELSE LET nn == SortSeq(DropNa(t.col[c].v), RLess)
         IN  IF nn = <<>>
             THEN IF empty_percentile = "IndexError" THEN [err |-> "IndexError"]
                  ELSE [err |-> "none",
                        df  |-> SetCol(t, c, [t.col[c] EXCEPT
                                   !.v = [i \in 1..t.n |-> Null]])]
             ELSE [err |-> "none",
                   df  |-> SetCol(t, c, [t.col[c] EXCEPT
                              !.v = [i \in 1..t.n |->
                                 Clip(@[i], Percentile(nn, lower_percentile),
                                      Percentile(nn, upper_percentile))]])]

RECURSIVE ClipLoop(_, _, _, _, _)
ClipLoop(t, columns, lower_percentile, upper_percentile, empty_percentile) ==
    IF columns = <<>> THEN [err |-> "none", df |-> t]
    ELSE LET r == ClipColumn(t, Head(columns), lower_percentile, upper_percentile,
                             empty_percentile)
         IN  IF r.err # "none" THEN r
             ELSE ClipLoop(r.df, Tail(columns), lower_percentile, upper_percentile,
                           empty_percentile)

ClipOutliers(t, columns, lower_percentile, upper_percentile, empty_percentile) ==
    LET r == ClipLoop(t, columns, lower_percentile, upper_percentile, empty_percentile)
    IN  IF r.err # "none" THEN Raised(r.err, t) ELSE Returned(r.df, t)

----------------------------------------------------------------------------
(* transformers.py: scale_features *)

SeqRange(s) == {s[i] : i \in 1..Len(s)}

ScaleFeatures(t, columns, method) ==
    IF method \notin {"minmax", "standard"} THEN Raised("ValueError", t)
    ELSE IF ~(SeqRange(columns) \subseteq Columns(t)) THEN Raised("KeyError", t)
    ELSE IF \E c \in SeqRange(columns) : t.col[c].dtype # "num"
         THEN Raised("ValueError", t)
    ELSE IF ScalerRefuses(t, SeqRange(columns)) THEN Raised("ValueError", t)
    ELSE Returned(FitTransform(t, SeqRange(columns), method), t)

----------------------------------------------------------------------------
(* transformers.py: create_kpis *)

\* x / y on cells, as floats divide: null when either is null, an infinity
\* for a non-zero x over 0, NaN for 0/0
CellDiv(x, y) == IF x = Null \/ y = Null THEN Null ELSE RDiv(x, y)

\* mutant of ColumnDiv: the division turned over
ColumnDivInverted(a, b) ==
    Plain([dtype |-> "num",
           v     |-> [i \in 1..Len(a.v) |-> CellDiv(b.v[i], a.v[i])],
           root  |-> RDiv(b.root, a.root)])

\* df[a] / df[b]
ColumnDiv(a, b) ==
    Plain([dtype |-> "num",
           v     |-> [i \in 1..Len(a.v) |-> CellDiv(a.v[i], b.v[i])],
           root  |-> RDiv(a.root, b.root)])

CreateKpis(t) ==
    IF "mill_power_kwh" \in Columns(t) /\ "throughput_tph" \in Columns(t)
    THEN IF t.col["mill_power_kwh"].dtype = "num" /\ t.col["throughput_tph"].dtype = "num"
         THEN Returned(SetCol(t, "specific_power_consumption",
                              ColumnDiv(t.col["mill_power_kwh"], t.col["throughput_tph"])), t)
         ELSE IF t.n = 0
         THEN Returned(SetCol(t, "specific_power_consumption", Column("obj", <<>>)), t)
         ELSE Raised("TypeError", t)
    ELSE Returned(t, t)

----------------------------------------------------------------------------
(* Calls of one transform on one table *)

Idle ==
    /\ pc = "call"
    /\ df = Null
    /\ caller_df = Null
    /\ steps = <<>>
    /\ fs = Null
    /\ todo = {}
    /\ files = <<>>
    /\ processed_data = <<>>
    /\ log = <<>>
    /\ env = "nan"
    /\ datasets = <<>>

InitFill ==
    /\ args \in [df : InputTables, method : FillMethods]
    /\ ret = Pending
    /\ Idle

CallFillMissingValues ==
    /\ ret = Pending
    /\ ret' = FillMissingValues(args.df, args.method)
    /\ UNCHANGED <<args, pc, df, caller_df, steps, fs, todo, files, processed_data, log, env, datasets>>

SpecFill == InitFill /\ [][CallFillMissingValues]_vars

\* C10 as stated: after fill_missing_values has returned, no numeric column of
\* the result holds a null, whatever the strategy and the table.
C10_NoNullAfterFill ==
    ret.err = "none" =>
        \A c \in NumericCols(ret.df) : ~HasNull(ret.df.col[c].v)

\* C10 amended: after fill_missing_values has returned, a numeric column of
\* the result holds a null exactly when the strategy is mean or median and the
\* column had no non-null value to take the mean or median of (it is then
\* still entirely null); strategy zero leaves no null at all.
C10_NullOnlyWhereNothingToAverage ==
    ret.err = "none" =>
        \A c \in NumericCols(ret.df) :
            /\ HasNull(ret.df.col[c].v) <=>
                  /\ args.method \in {"mean", "median"}
                  /\ args.df.n > 0
                  /\ DropNa(args.df.col[c].v) = <<>>
            /\ HasNull(ret.df.col[c].v) => ret.df.col[c].v = args.df.col[c].v

\* a column with a null and a value went in, and came out without a null
C10_FilledAColumn ==
    /\ ret.err = "none"
    /\ args.method = "mean"
    /\ \E c \in NumericCols(args.df) :
          /\ HasNull(args.df.col[c].v)
          /\ DropNa(args.df.col[c].v) # <<>>
          /\ ~HasNull(ret.df.col[c].v)

----------------------------------------------------------------------------
(* transformers.py: transform_pipeline, one step at a time *)

IsDataFrame(x) == "col" \in DOMAIN x

\* something that is no DataFrame
NotADataFrame == [series |-> <<>>]

ClipChoices == {<<>>, <<"mill_power_kwh">>, <<"no_such_column", "mill_power_kwh">>,
                <<"timestamp">>}

ScaleChoices == {<<>>, <<"mill_power_kwh">>, <<"no_such_column">>}

\* the defaults of transform_pipeline's parameters
TPDefaults ==
    [normalize_method |-> "minmax", fill_method |-> "mean",
     timestamp_col |-> "timestamp", anomaly_threshold |-> <<3, 1>>,
     clip_columns |-> <<>>, scale_columns |-> <<>>]

\* the keyword arguments the model calls transform_pipeline with
TPConfigs ==
    {[TPDefaults EXCEPT !.clip_columns = c, !.scale_columns = sc] :
        c \in ClipChoices, sc \in ScaleChoices}
    \cup {[TPDefaults EXCEPT !.normalize_method = "standard",
                             !.clip_columns = <<"mill_power_kwh">>,
                             !.scale_columns = <<"mill_power_kwh">>]}
    \cup {[TPDefaults EXCEPT !.normalize_method = m] : m \in NormalizeMethods}
    \cup {[TPDefaults EXCEPT !.fill_method = m] : m \in FillMethods}
    \cup {[TPDefaults EXCEPT !.anomaly_threshold = <<1, 2>>]}

\* mutant of TPNext: the named columns are scaled before the outliers are clipped
TPNextScaleFirst(step, a) ==
    LET afterScale == IF a.clip_columns # <<>> THEN "clip_outliers" ELSE "create_kpis"
    IN  CASE step = "start" -> "fill_missing_values"
          [] step = "fill_missing_values" -> "add_time_features"
          [] step = "add_time_features" -> "normalize_features"
          [] step = "normalize_features" -> "detect_anomalies"
          [] step = "detect_anomalies" ->
                IF a.scale_columns # <<>> THEN "scale_features" ELSE afterScale
          [] step = "scale_features" -> afterScale
          [] step = "clip_outliers" -> "create_kpis"
          [] step = "create_kpis" -> "return"

\* the step that follows step `step` of transform_pipeline under arguments a
TPNext(step, a) ==
    LET afterClip == IF a.scale_columns # <<>> THEN "scale_features" ELSE "create_kpis"
    IN  CASE step = "start" -> "fill_missing_values"
          [] step = "fill_missing_values" -> "add_time_features"
          [] step = "add_time_features" -> "normalize_features"
          [] step = "normalize_features" -> "detect_anomalies"
          [] step = "detect_anomalies" ->
                IF a.clip_columns # <<>> THEN "clip_outliers" ELSE afterClip
          [] step = "clip_outliers" -> afterClip
          [] step = "scale_features" -> "create_kpis"
          [] step = "create_kpis" -> "return"

\* the call that step `step` makes on table t
TPCall(step, t, a, e) ==
    CASE step = "fill_missing_values" -> FillMissingValues(t, a.fill_method)
      [] step = "add_time_features" -> AddTimeFeatures(t, a.timestamp_col)
      [] step = "normalize_features" -> NormalizeFeatures(t, a.normalize_method)
      [] step = "detect_anomalies" -> DetectAnomalies(t, a.anomaly_threshold)
      [] step = "clip_outliers" -> ClipOutliers(t, a.clip_columns, 1, 99, e)
      [] step = "scale_features" -> ScaleFeatures(t, a.scale_columns, a.normalize_method)
      [] step = "create_kpis" -> CreateKpis(t)

TPSteps == {"fill_missing_values", "add_time_features", "normalize_features",
            "detect_anomalies", "clip_outliers", "scale_features", "create_kpis"}

InitPipeline ==
    /\ \E t \in PipelineTables \cup {NotADataFrame}, c \in TPConfigs :
          /\ args = c @@ [df |-> t]
          /\ df = t
          /\ caller_df = t
          /\ env \in IF c.clip_columns = <<>> THEN {"nan"} ELSE {"nan", "IndexError"}
    /\ ret = Pending
    /\ pc = "start"
    /\ steps = <<>>
    /\ fs = Null
    /\ todo = {}
    /\ files = <<>>
    /\ processed_data = <<>>
    /\ log = <<>>
    /\ datasets = <<>>

\* the isinstance check that opens transform_pipeline
TPStart ==
    /\ pc = "start"
    /\ IF IsDataFrame(df)
       THEN /\ pc' = TPNext("start", args)
            /\ ret' = ret
       ELSE /\ pc' = "raised"
            /\ ret' = [err |-> "TypeError"]
    /\ UNCHANGED <<args, df, caller_df, steps, fs, todo, files, processed_data, log, env, datasets>>

\* one step: df = step(df, ...).  The first step is handed the caller's own
\* table object; every later step is handed what the step before returned.
TPStep ==
    /\ pc \in TPSteps
    /\ LET r == TPCall(pc, df, args, env)
       IN  /\ steps' = Append(steps, [fn |-> pc, arg |-> df, err |-> r.err,
                                      out |-> IF r.err = "none" THEN r.df ELSE Null])
           /\ caller_df' = IF steps = <<>> THEN r.input ELSE caller_df
           /\ IF r.err = "none"
              THEN /\ df' = r.df
                   /\ pc' = TPNext(pc, args)
                   /\ ret' = ret
              ELSE /\ df' = df
                   /\ pc' = "raised"
                   /\ ret' = [err |-> r.err]
    /\ UNCHANGED <<args, fs, todo, files, processed_data, log, env, datasets>>

TPReturn ==
    /\ pc = "return"
    /\ ret' = [err |-> "none", df |-> df]
    /\ pc' = "done"
    /\ UNCHANGED <<args, df, caller_df, steps, fs, todo, files, processed_data, log, env, datasets>>

NextPipeline == TPStart \/ TPStep \/ TPReturn

SpecPipeline == InitPipeline /\ [][NextPipeline]_vars

\* the steps a call with arguments a runs when none of them fails
TPExpected(a) ==
    <<"fill_missing_values", "add_time_features", "normalize_features", "detect_anomalies">>
    \o (IF a.clip_columns # <<>> THEN <<"clip_outliers">> ELSE <<>>)
    \o (IF a.scale_columns # <<>> THEN <<"scale_features">> ELSE <<>>)
    \o <<"create_kpis">>

\* C1: the steps transform_pipeline has run are always the first steps of
\* fill_missing_values, add_time_features, normalize_features, detect_anomalies,
\* clip_outliers (only with clip_columns), scale_features (only with
\* scale_columns), create_kpis; the first is handed the caller's table and each
\* later one the table the step before returned; a call that returns has run
\* them all, each once.
C1_FixedOrder ==
    /\ Len(steps) <= Len(TPExpected(args))
    /\ \A i \in 1..Len(steps) :
          /\ steps[i].fn = TPExpected(args)[i]
          /\ steps[i].arg = IF i = 1 THEN args.df ELSE steps[i - 1].out
    /\ pc \in {"return", "done"} =>
          /\ Len(steps) = Len(TPExpected(args))
          /\ df = steps[Len(steps)].out
    /\ pc = "done" => ret = [err |-> "none", df |-> df]

\* a call that clipped and scaled has returned
C1_AllSevenStepsRan ==
    /\ pc = "done"
    /\ Len(steps) = 7

\* C2: once a step of transform_pipeline has raised, the call has raised that
\* step's error, every earlier step had succeeded, no later step runs (nothing
\* at all happens any more), no table is returned and the caller's table is
\* what it was before the call.
C2_FailFast ==
    (pc = "raised" /\ steps # <<>>) =>
        /\ ret.err = steps[Len(steps)].err
        /\ ret.err \notin {"none", "pending"}
        /\ \A i \in 1..(Len(steps) - 1) : steps[i].err = "none"
        /\ "df" \notin DOMAIN ret
        /\ caller_df = args.df
        /\ ~ENABLED NextPipeline

\* a later step raised after fill_missing_values had filled nulls
C2_RaisedAfterFilling ==
    /\ pc = "raised"
    /\ Len(steps) >= 2
    /\ steps[1].out # args.df

----------------------------------------------------------------------------
(* The directory tree the loaders read *)

\* A base directory is a function from run-directory name to run directory.  A
\* run-directory name is a string of digits, here the sequence of its digits,
\* so that "9" sorts after "10" as strings do.  A run directory is a record
\*   stages : stage subdirectory name -> (CSV base name -> table as read)
\*   csvs   : base name of a CSV file lying in the run directory -> table
StageNames == {"stage1_raw_materials", "stage2_grinding_preheater"}

CsvNames == {"sensors", "lab"}

RunNames == {<<9>>, <<1, 0>>}

\* string comparison, character by character
RECURSIVE LexLess(_, _)
LexLess(a, b) ==
    IF b = <<>> THEN FALSE
    ELSE IF a = <<>> THEN TRUE
    ELSE IF Head(a) # Head(b) THEN Head(a) < Head(b)
    ELSE LexLess(Tail(a), Tail(b))

\* sorted(glob(base_dir/*))[-1]
LatestFolder(base) ==
    CHOOSE x \in DOMAIN base : \A y \in DOMAIN base : y = x \/ LexLess(y, x)

\* the value a call returned (a dict is a function, {} the empty function)
Value(x) == [err |-> "none", value |-> x]

\* a CSV file with nothing in it: no header, no rows
EmptyCsv == [bytes |-> 0]

\* loaders.py: load_csv on what a CSV file holds; pd.read_csv raises
\* EmptyDataError on a file without a header, and load_csv raises it again
LoadCsv(content) ==
    IF "col" \in DOMAIN content THEN Value(content) ELSE [err |-> "EmptyDataError"]

\* mutant of LoadStageData: a directory without CSV files gives an empty mapping
LoadStageDataEmptyOk(dir) ==
    IF \E f \in DOMAIN dir : LoadCsv(dir[f]).err # "none"
    THEN [err |-> "EmptyDataError"]
    ELSE Value([f \in DOMAIN dir |-> LoadCsv(dir[f]).value])

\* loaders.py: load_stage_data on the stage directory dir (CSV base name ->
\* what the file holds); the first file that does not load ends the call
LoadStageData(dir) ==
    IF DOMAIN dir = {} THEN [err |-> "FileNotFoundError"]
    ELSE IF \E f \in DOMAIN dir : LoadCsv(dir[f]).err # "none"
    THEN [err |-> "EmptyDataError"]
    ELSE Value([f \in DOMAIN dir |-> LoadCsv(dir[f]).value])

\* the isinstance(v, pd.DataFrame) filter that ends load_all_stages
OnlyDataFrames(all_data) ==
    [k \in {k \in DOMAIN all_data : IsDataFrame(all_data[k])} |-> all_data[k]]

\* loaders.py: load_all_stages
LoadAllStages(base) ==
    IF DOMAIN base = {} THEN [err |-> "FileNotFoundError"]
    ELSE LET latest == base[LatestFolder(base)]
         IN  IF DOMAIN latest.stages = {}
             THEN Value(OnlyDataFrames([f \in DOMAIN latest.csvs |-> latest.csvs[f]]))
             ELSE IF \E sd \in DOMAIN latest.stages :
                        LoadStageData(latest.stages[sd]).err # "none"
             THEN [err |-> "FileNotFoundError"]
             ELSE Value(OnlyDataFrames(
                     [sd \in DOMAIN latest.stages |->
                         LoadStageData(latest.stages[sd]).value]))

----------------------------------------------------------------------------
(* Schemas and the validators *)

\* A schema document lists its column names under the key "fields" or under
\* the key "columns"; SCHEMAS (schemas.py) maps a stage name to its document.
SchemaDocs ==
    {[key |-> k, names |-> n] :
        k \in {"fields", "columns"},
        n \in {{"timestamp", "mill_power_kwh"},
               {"timestamp", "mill_power_kwh", "throughput_tph"}}}

\* pd.to_datetime(column) without errors="coerce" raises on text that is no date
ToDatetimeRaises(c) ==
    /\ c.dtype = "obj"
    /\ \E i \in 1..Len(c.v) : c.v[i] # Null /\ ToDatetime(c.v[i]) = Null

\* df[col].dropna().empty
EmptyColumns(t) == {c \in Columns(t) : DropNa(t.col[c].v) = <<>>}

\* pipelines.py: validate_schema(df, stage); `why` names the check that raised
PipelinesValidateSchema(t, stage, schemas) ==
    IF stage \notin DOMAIN schemas THEN [err |-> "ValueError", why |-> "no schema"]
    ELSE LET expected_columns == IF schemas[stage].key = "columns"
                                 THEN schemas[stage].names ELSE {}
         IN  IF ~IsDataFrame(t) THEN [err |-> "TypeError", why |-> "not a DataFrame"]
             ELSE IF expected_columns \ Columns(t) # {}
             THEN [err |-> "ValueError", why |-> "missing columns"]
             ELSE IF EmptyColumns(t) # {}
             THEN [err |-> "ValueError", why |-> "empty columns"]
             ELSE IF "timestamp" \in Columns(t) /\ ToDatetimeRaises(t.col["timestamp"])
             THEN [err |-> "ValueError", why |-> "timestamp"]
             ELSE [err |-> "none", why |-> "valid"]

\* loaders.py: validate_schema(df, schema) -> (ok, message)
LoadersValidateSchema(t, schema) ==
    IF schema.key # "fields" THEN [err |-> "KeyError"]
    ELSE IF schema.names \ Columns(t) # {}
    THEN [err |-> "none", ok |-> FALSE,
          msg |-> [text |-> "Missing columns", missing |-> schema.names \ Columns(t)]]
    ELSE IF "timestamp" \in Columns(t) /\ ToDatetimeRaises(t.col["timestamp"])
    THEN [err |-> "none", ok |-> FALSE, msg |-> [text |-> "Timestamp parse error"]]
    ELSE [err |-> "none", ok |-> TRUE, msg |-> [text |-> "OK"]]

\* CSV files lying in a run directory, by base name
LooseCsvNames == {"stage1_raw_materials", "stage2_grinding_preheater_default", "notes"}

\* glob "stage*.csv"
IsStageCsv(name) == name \in {"stage1_raw_materials", "stage2_grinding_preheater_default"}

\* basename without ".csv", cut at "_default"
StageOfCsv(name) ==
    IF name = "stage2_grinding_preheater_default" THEN "stage2_grinding_preheater" ELSE name

\* mutant of LoadStageFiles: a table that fails validation is left out
LoadStageFilesDropsFailed(run_dir, schemas) ==
    LET stage_files == {f \in DOMAIN run_dir.csvs : IsStageCsv(f)}
        with_schema == {f \in stage_files : StageOfCsv(f) \in DOMAIN schemas}
        Check(f)    == LoadersValidateSchema(run_dir.csvs[f], schemas[StageOfCsv(f)])
        kept        == {f \in with_schema : Check(f).ok}
        FileOf(sn)  == CHOOSE f \in kept : StageOfCsv(f) = sn
    IN  IF stage_files = {} THEN [err |-> "FileNotFoundError"]
        ELSE IF \E f \in with_schema : Check(f).err # "none" THEN [err |-> "KeyError"]
        ELSE [err   |-> "none",
              value |-> [sn \in {StageOfCsv(f) : f \in kept} |-> run_dir.csvs[FileOf(sn)]],
              warnings |->
                  {[text |-> "No schema found", stage |-> StageOfCsv(f)] :
                        f \in stage_files \ with_schema}
                  \cup {[text |-> "Validation failed", stage |-> StageOfCsv(f),
                         msg |-> Check(f).msg] : f \in with_schema \ kept}]

\* loaders.py: load_stage_files(run_dir), the schema directory holding `schemas`.
\* The result carries the warnings logged on the way.
LoadStageFiles(run_dir, schemas) ==
    LET stage_files == {f \in DOMAIN run_dir.csvs : IsStageCsv(f)}
        with_schema == {f \in stage_files : StageOfCsv(f) \in DOMAIN schemas}
        Check(f)    == LoadersValidateSchema(run_dir.csvs[f], schemas[StageOfCsv(f)])
        FileOf(sn)  == CHOOSE f \in with_schema : StageOfCsv(f) = sn
    IN  IF stage_files = {} THEN [err |-> "FileNotFoundError"]
        ELSE IF \E f \in with_schema : Check(f).err # "none" THEN [err |-> "KeyError"]
        ELSE [err   |-> "none",
              value |-> [sn \in {StageOfCsv(f) : f \in with_schema} |->
                            run_dir.csvs[FileOf(sn)]],
              warnings |->
                  {[text |-> "No schema found", stage |-> StageOfCsv(f)] :
                        f \in stage_files \ with_schema}
                  \cup {[text |-> "Validation failed", stage |-> StageOfCsv(f),
                         msg |-> Check(f).msg] : f \in {g \in with_schema : ~Check(g).ok}}]

\* pipelines.py: preprocess_single(df, stage, normalize_method); calls lists
\* the transforms called, errors what was logged as an error
PreprocessSingle(t, stage, normalize_method, schemas) ==
    LET v  == PipelinesValidateSchema(t, stage, schemas)
        r1 == AddTimeFeatures(t, "timestamp")
        r2 == NormalizeFeatures(r1.df, normalize_method)
        c1 == [fn |-> "add_time_features", arg |-> t, err |-> r1.err]
        c2 == [fn |-> "normalize_features", arg |-> r1.df, err |-> r2.err]
    IN  IF v.err # "none"
        THEN [err |-> v.err, why |-> v.why, calls |-> <<>>, errors |-> {}]
        ELSE IF r1.err # "none"
        THEN [err |-> r1.err, why |-> "transform", calls |-> <<c1>>,
              errors |-> {[text |-> "Error adding time features", stage |-> stage]}]
        ELSE IF r2.err # "none"
        THEN [err |-> r2.err, why |-> "transform", calls |-> <<c1, c2>>,
              errors |-> {[text |-> "Error normalizing features", stage |-> stage]}]
        ELSE [err |-> "none", why |-> "valid", df |-> r2.df, calls |-> <<c1, c2>>,
              errors |-> {}]

----------------------------------------------------------------------------
(* pipelines.py: get_preprocessed_data (the definition in force, the second) *)

EmptyDict == [x \in {} |-> x]

\* d[k] = v
Put(d, k, v) == [x \in DOMAIN d \cup {k} |-> IF x = k THEN v ELSE d[x]]

\* the members of S in a sequence (the order of an Index of columns)
RECURSIVE SetToSeq(_)
SetToSeq(S) ==
    IF S = {} THEN <<>>
    ELSE LET x == CHOOSE y \in S : TRUE IN <<x>> \o SetToSeq(S \ {x})

\* a call f(df, **kwargs) of fill_missing_values(df, method="mean"): Python
\* raises TypeError for a keyword that is no parameter, before the body runs
FillMissingValuesKeywords(t, kwargs) ==
    IF ~(DOMAIN kwargs \subseteq {"method"}) THEN Raised("TypeError", t)
    ELSE FillMissingValues(t, IF "method" \in DOMAIN kwargs THEN kwargs.method ELSE "mean")

\* df.to_csv(path, index=False): the header and the cells as text; the dtypes
\* are not written
ToCsv(t) == [header |-> Columns(t), rows |-> t.n,
             cells |-> [c \in Columns(t) |-> t.col[c].v]]

\* df.describe().to_dict(): per numeric column the count, mean, variance (std
\* squared), minimum, quartiles and maximum of its non-null values
Describe(t) ==
    [c \in NumericCols(t) |->
        LET nn == SortSeq(DropNa(t.col[c].v), RLess)
        IN  IF nn = <<>> THEN [count |-> 0]
            ELSE [count |-> Len(nn), mean |-> Mean(nn), var |-> Variance(nn, 1),
                  min |-> nn[1], q25 |-> Percentile(nn, 25), q50 |-> Percentile(nn, 50),
                  q75 |-> Percentile(nn, 75), max |-> nn[Len(nn)]]]

\* mutant of GpdSteps: the orchestrator stops after add_time_features and
\* normalize_features
GpdStepsTwo == <<"add_time_features", "normalize_features">>

\* the transforms get_preprocessed_data calls on one table, in order
GpdSteps == <<"add_time_features", "normalize_features", "fill_missing_values",
              "clip_outliers", "create_kpis">>

\* the call that get_preprocessed_data makes of transform `step` on table t
GpdCall(step, t, normalize_method, e) ==
    CASE step = "add_time_features" -> AddTimeFeatures(t, "timestamp")
      [] step = "normalize_features" -> NormalizeFeatures(t, normalize_method)
      [] step = "fill_missing_values" ->
            FillMissingValuesKeywords(t, [strategy |-> "mean"])
      [] step = "clip_outliers" -> ClipOutliers(t, SetToSeq(NumericCols(t)), 1, 99, e)
      [] step = "create_kpis" -> CreateKpis(t)

\* the transforms from the i-th on; calls lists the calls made so far, scaler
\* is what normalize_features returned beside the table
RECURSIVE GpdRun(_, _, _, _, _, _)
GpdRun(i, t, normalize_method, e, calls, scaler) ==
    IF i > Len(GpdSteps)
    THEN [err |-> "none", df |-> t, scaler |-> scaler, calls |-> calls]
    ELSE LET r    == GpdCall(GpdSteps[i], t, normalize_method, e)
             call == [fn |-> GpdSteps[i], arg |-> t, err |-> r.err,
                      scaler |-> IF "scaler" \in DOMAIN r THEN r.scaler ELSE Null]
         IN  IF r.err # "none" THEN [err |-> r.err, calls |-> Append(calls, call)]
             ELSE GpdRun(i + 1, r.df, normalize_method, e, Append(calls, call),
                         IF "scaler" \in DOMAIN r THEN r.scaler ELSE scaler)

\* df = add_time_features(df); df, scaler = normalize_features(df, ...); ...
GpdTransform(t, normalize_method, e) == GpdRun(1, t, normalize_method, e, <<>>, Null)

\* the (stage, file) pairs a loop over the stages, and over each stage's files,
\* may take next: a file of the stage under way while one is left
Eligible(item) ==
    IF steps = <<>> THEN TRUE
    ELSE IF item[1] = steps[Len(steps)].stage THEN TRUE
    ELSE \A other \in todo : other[1] # steps[Len(steps)].stage

\* the calls of one table, tagged with the stage and file they belong to
Tagged(calls, stage, file) ==
    [i \in 1..Len(calls) |-> calls[i] @@ [stage |-> stage, file |-> file]]

\* one turn of the loop over the CSV files: read, transform, save, collect
GpdFile ==
    /\ args.fn = "get_preprocessed_data"
    /\ pc = "loop"
    /\ \E item \in todo :
          /\ Eligible(item)
          /\ \E stage_name \in {item[1]} :
             \E r \in {GpdTransform(fs.base[args.data_dir].stages[stage_name][item[2]],
                                    args.normalize_method, env)} :
                 /\ steps' = steps \o Tagged(r.calls, stage_name, item[2])
                 /\ IF r.err = "none"
                    THEN /\ files' = Put(Put(Put(files,
                                <<"processed_csv", stage_name>>, ToCsv(r.df)),
                                <<"stats_json", stage_name>>, Describe(r.df)),
                                <<"scaler_joblib", stage_name>>, NumericCols(r.df))
                         /\ processed_data' = Put(processed_data, stage_name, r.df)
                         /\ todo' = todo \ {item}
                         /\ UNCHANGED <<pc, ret>>
                    ELSE /\ pc' = "raised"
                         /\ ret' = [err |-> r.err]
                         /\ UNCHANGED <<files, processed_data, todo>>
    /\ UNCHANGED <<args, df, caller_df, fs, log, env, datasets>>

GpdReturn ==
    /\ args.fn = "get_preprocessed_data"
    /\ pc = "loop"
    /\ todo = {}
    /\ pc' = "done"
    /\ ret' = Value(processed_data)
    /\ UNCHANGED <<args, df, caller_df, steps, fs, todo, files, processed_data, log, env,
                   datasets>>

----------------------------------------------------------------------------
(* pipelines.py: the command line (__main__) *)

\* transform_pipeline as one call: the steps of TPNext from `step` on
RECURSIVE TPRun(_, _, _, _)
TPRun(step, t, a, e) ==
    IF step = "return" THEN [err |-> "none", df |-> t]
    ELSE LET r == TPCall(step, t, a, e)
         IN  IF r.err # "none" THEN [err |-> r.err]
             ELSE TPRun(TPNext(step, a), r.df, a, e)

TransformPipeline(t, a, e) ==
    IF ~IsDataFrame(t) THEN [err |-> "TypeError"]
    ELSE TPRun(TPNext("start", a), t, a, e)

\* what the command line loads: one stage of the latest run with --stage,
\* load_all_stages without
CliDatasets(base, stage) ==
    IF stage = "" THEN LoadAllStages(base)
    ELSE IF DOMAIN base = {} THEN [err |-> "FileNotFoundError"]
    ELSE IF stage \notin DOMAIN base[LatestFolder(base)].stages
    THEN [err |-> "FileNotFoundError"]
    ELSE LET r == LoadStageData(base[LatestFolder(base)].stages[stage])
         IN  IF r.err # "none" THEN r ELSE Value([s \in {stage} |-> r.value])

\* the pairs (stage, file_name) of the two loops
\*   for stage, data_dict in datasets.items(): for file_name, df in data_dict.items()
\* When data_dict is itself a DataFrame, items() runs over its columns.
CliItems(d) ==
    UNION { {<<k, name>> : name \in IF IsDataFrame(d[k]) THEN Columns(d[k]) ELSE DOMAIN d[k]}
            : k \in DOMAIN d }

\* the value paired with file_name: a table, or a column (a Series)
CliItem(d, item) ==
    IF IsDataFrame(d[item[1]]) THEN [series |-> d[item[1]].col[item[2]].v]
    ELSE d[item[1]][item[2]]

CliLoad ==
    /\ args.fn = "__main__"
    /\ pc = "start"
    /\ LET r == CliDatasets(fs.base, args.stage)
       IN  IF r.err # "none"
           THEN /\ pc' = "raised"
                /\ ret' = [err |-> r.err]
                /\ UNCHANGED <<datasets, todo>>
           ELSE /\ pc' = "loop"
                /\ datasets' = r.value
                /\ todo' = CliItems(r.value)
                /\ ret' = ret
    /\ UNCHANGED <<args, df, caller_df, steps, fs, files, processed_data, log, env>>

\* mutant of CliFile: no try/except around transform_pipeline
CliFileNoCatch ==
    /\ args.fn = "__main__"
    /\ pc = "loop"
    /\ \E item \in todo :
          /\ Eligible(item)
          /\ \E x \in {CliItem(datasets, item)} :
             \E r \in {TransformPipeline(x, TPDefaults, env)} :
                 /\ steps' = Append(steps, [fn |-> "transform_pipeline", err |-> r.err,
                                           stage |-> item[1], file |-> item[2]])
                 /\ IF r.err = "none"
                    THEN /\ files' = Put(files, <<"processed_csv", item[2]>>, ToCsv(r.df))
                         /\ UNCHANGED <<pc, ret>>
                    ELSE /\ files' = files
                         /\ pc' = "raised"
                         /\ ret' = [err |-> r.err]
                 /\ log' = log
          /\ todo' = todo \ {item}
    /\ UNCHANGED <<args, df, caller_df, fs, processed_data, env, datasets>>

\* mutant of CliFile: the table is saved whether or not its transform succeeded
CliFileSaveAnyway ==
    /\ args.fn = "__main__"
    /\ pc = "loop"
    /\ \E item \in todo :
          /\ Eligible(item)
          /\ \E x \in {CliItem(datasets, item)} :
             \E r \in {TransformPipeline(x, TPDefaults, env)} :
                 /\ steps' = Append(steps, [fn |-> "transform_pipeline", err |-> r.err,
                                           stage |-> item[1], file |-> item[2]])
                 /\ files' = Put(files, <<"processed_csv", item[2]>>,
                                 IF r.err = "none" THEN ToCsv(r.df) ELSE x)
                 /\ log' = IF r.err = "none" THEN log
                           ELSE log \cup {[text |-> "Error processing", stage |-> item[1],
                                           file |-> item[2], err |-> r.err]}
          /\ todo' = todo \ {item}
    /\ UNCHANGED <<args, ret, pc, df, caller_df, fs, processed_data, env, datasets>>

\* one turn of the inner loop: a value that is no DataFrame is logged and
\* passed over; a table is transformed and saved, and an exception of either
\* is caught and logged
CliFile ==
    /\ args.fn = "__main__"
    /\ pc = "loop"
    /\ \E item \in todo :
          /\ Eligible(item)
          /\ \E x \in {CliItem(datasets, item)} :
             \E r \in {TransformPipeline(x, TPDefaults, env)} :
                 IF ~IsDataFrame(x)
                 THEN /\ steps' = Append(steps, [fn |-> "isinstance", err |-> "none",
                                                stage |-> item[1], file |-> item[2]])
                      /\ log' = log \cup {[text |-> "Expected DataFrame",
                                           stage |-> item[1], file |-> item[2]]}
                      /\ files' = files
                 ELSE /\ steps' = Append(steps, [fn |-> "transform_pipeline", err |-> r.err,
                                                stage |-> item[1], file |-> item[2]])
                      /\ IF r.err = "none"
                         THEN /\ files' = Put(files, <<"processed_csv", item[2]>>,
                                              ToCsv(r.df))
                              /\ log' = log
                         ELSE /\ files' = files
                              /\ log' = log \cup {[text |-> "Error processing",
                                                   stage |-> item[1], file |-> item[2],
                                                   err |-> r.err]}
          /\ todo' = todo \ {item}
    /\ UNCHANGED <<args, ret, pc, df, caller_df, fs, processed_data, env, datasets>>

CliDone ==
    /\ args.fn = "__main__"
    /\ pc = "loop"
    /\ todo = {}
    /\ pc' = "done"
    /\ ret' = [err |-> "none"]
    /\ log' = log \cup {[text |-> "All datasets processed and saved"]}
    /\ UNCHANGED <<args, df, caller_df, steps, fs, todo, files, processed_data, env,
                   datasets>>

----------------------------------------------------------------------------
(* Single calls of the loaders and of preprocess_single *)

CallLoadAllStages ==
    /\ args.fn = "load_all_stages"
    /\ pc = "call"
    /\ ret' = LoadAllStages(fs.base)
    /\ pc' = "done"
    /\ UNCHANGED <<args, df, caller_df, steps, fs, todo, files, processed_data, log, env,
                   datasets>>

CallLoadStageFiles ==
    /\ args.fn = "load_stage_files"
    /\ pc = "call"
    /\ LET r == LoadStageFiles(fs.base[args.run_dir], fs.schemas)
       IN  /\ ret' = r
           /\ log' = IF r.err = "none" THEN log \cup r.warnings ELSE log
    /\ pc' = "done"
    /\ UNCHANGED <<args, df, caller_df, steps, fs, todo, files, processed_data, env,
                   datasets>>

CallLoadStageData ==
    /\ args.fn = "load_stage_data"
    /\ pc = "call"
    /\ ret' = LoadStageData(fs.base[args.stage_dir[1]].stages[args.stage_dir[2]])
    /\ pc' = "done"
    /\ UNCHANGED <<args, df, caller_df, steps, fs, todo, files, processed_data, log, env,
                   datasets>>

CallPreprocessSingle ==
    /\ args.fn = "preprocess_single"
    /\ pc = "call"
    /\ LET r == PreprocessSingle(args.df, args.stage, args.normalize_method, fs.schemas)
       IN  /\ ret' = r
           /\ steps' = Tagged(r.calls, args.stage, "")
           /\ log' = log \cup r.errors
    /\ pc' = "done"
    /\ UNCHANGED <<args, df, caller_df, fs, todo, files, processed_data, env, datasets>>

----------------------------------------------------------------------------
(* Runs: get_preprocessed_data, the command line, and the single calls *)

\* the tables found in the CSV files of a run: MaxRows rows or none, with or
\* without a timestamp column, mill_power_kwh rising, with a blank in its
\* first row, or all blank
RunTables ==
    {t \in InputTables :
        /\ t.n \in {0, MaxRows}
        /\ "mill_power_kwh" \in Columns(t)
        /\ ("throughput_tph" \in Columns(t) =>
                /\ "timestamp" \in Columns(t)
                /\ \A i \in 1..t.n : t.col["throughput_tph"].v[i] = <<MaxVal, 1>>)
        /\ \/ \A i \in 1..t.n : t.col["mill_power_kwh"].v[i] = <<i % (MaxVal + 1), 1>>
           \/ \A i \in 1..t.n : t.col["mill_power_kwh"].v[i] =
                                    IF i = 1 THEN Null ELSE <<i % (MaxVal + 1), 1>>
           \/ \A i \in 1..t.n : t.col["mill_power_kwh"].v[i] = Null}

\* a table with parseable timestamps and a numeric column without blanks
GoodTable ==
    MkTable(MaxRows, {"timestamp", "mill_power_kwh"},
            [i \in 1..MaxRows |-> <<"2025-09-17 23:10:01">>],
            [i \in 1..MaxRows |-> <<i % (MaxVal + 1), 1>>],
            <<>>)

\* run directories with stage subdirectories: every sensors.csv holds t, every
\* lab.csv the good table
StageDirs(t) ==
    {[stages |-> [sd \in S |-> [f \in F[sd] |-> IF f = "sensors" THEN t ELSE GoodTable]],
      csvs   |-> EmptyDict] :
        S \in SUBSET StageNames, F \in [StageNames -> SUBSET CsvNames]}

\* run directories without stage subdirectories, the CSV files lying in the
\* run directory: stage1_raw_materials.csv holds t, the others the good table
LooseDirs(t) ==
    {[stages |-> EmptyDict,
      csvs   |-> [f \in F |-> IF f = "stage1_raw_materials" THEN t ELSE GoodTable]] :
        F \in SUBSET LooseCsvNames}

\* the base directories: the run "9" holds the run directory d, an older run
\* "10", when there, holds one stage with one good table
Bases(d) ==
    {[r \in R |-> IF r = <<9>> THEN d
                  ELSE [stages |-> [sd \in {"stage2_grinding_preheater"} |->
                                        [f \in {"lab"} |-> GoodTable]],
                        csvs   |-> EmptyDict]] : R \in SUBSET RunNames}

\* the schema directory: a document for some of the stages
SchemaDirs ==
    UNION {[S -> SchemaDocs] : S \in SUBSET StageNames}

\* the items of the loop of get_preprocessed_data over data_dir
GpdItems(run_dir) ==
    UNION { {<<sd, f>> : f \in DOMAIN run_dir.stages[sd]} : sd \in DOMAIN run_dir.stages }

InitGpd ==
    /\ \E t \in RunTables, m \in {"minmax", "standard"} :
       \E d \in StageDirs(t) :
          /\ args = [fn |-> "get_preprocessed_data", data_dir |-> <<9>>,
                     normalize_method |-> m]
          /\ fs = [base |-> [r \in {<<9>>} |-> d], schemas |-> EmptyDict]
          /\ todo = GpdItems(d)
    /\ pc = "loop"
    /\ env \in {"nan", "IndexError"}

InitCli ==
    /\ \E t \in RunTables :
       \E d \in StageDirs(t) \cup LooseDirs(t) :
       \E b \in Bases(d) :
          /\ fs = [base |-> b, schemas |-> EmptyDict]
          /\ args \in {[fn |-> "__main__", stage |-> st] :
                          st \in {""} \cup StageNames}
    /\ todo = {}
    /\ pc = "start"
    /\ env = "nan"

InitLoadAllStages ==
    /\ \E t \in RunTables :
       \E d \in StageDirs(t) \cup LooseDirs(t) :
       \E b \in Bases(d) :
          fs = [base |-> b, schemas |-> EmptyDict]
    /\ args = [fn |-> "load_all_stages"]
    /\ todo = {}
    /\ pc = "call"
    /\ env = "nan"

InitLoadStageFiles ==
    /\ \E t \in RunTables, sc \in SchemaDirs :
       \E d \in LooseDirs(t) :
          fs = [base |-> [r \in {<<9>>} |-> d], schemas |-> sc]
    /\ args = [fn |-> "load_stage_files", run_dir |-> <<9>>]
    /\ todo = {}
    /\ pc = "call"
    /\ env = "nan"

\* stage directories: each of their CSV files holds a table or nothing
StageFileDirs == UNION {[F -> RunTables \cup {EmptyCsv}] : F \in SUBSET CsvNames}

InitLoadStageData ==
    /\ \E d \in StageFileDirs :
          fs = [base |-> [r \in {<<9>>} |->
                            [stages |-> [sd \in {"stage1_raw_materials"} |-> d],
                             csvs   |-> EmptyDict]],
                schemas |-> EmptyDict]
    /\ args = [fn |-> "load_stage_data", stage_dir |-> << <<9>>, "stage1_raw_materials" >>]
    /\ todo = {}
    /\ pc = "call"
    /\ env = "nan"

InitPreprocessSingle ==
    /\ \E t \in RunTables \cup {NotADataFrame}, st \in StageNames,
          m \in {"minmax", "standard"} :
          args = [fn |-> "preprocess_single", df |-> t, stage |-> st,
                  normalize_method |-> m]
    /\ \E sc \in SchemaDirs : fs = [base |-> EmptyDict, schemas |-> sc]
    /\ todo = {}
    /\ pc = "call"
    /\ env = "nan"

\* what every run starts with: nothing returned, called, written or logged yet
Fresh ==
    /\ ret = Pending
    /\ df = Null
    /\ caller_df = Null
    /\ steps = <<>>
    /\ files = EmptyDict
    /\ processed_data = EmptyDict
    /\ log = {}
    /\ datasets = EmptyDict

InitRun ==
    \/ InitGpd /\ Fresh
    \/ InitCli /\ Fresh
    \/ InitLoadAllStages /\ Fresh
    \/ InitLoadStageFiles /\ Fresh
    \/ InitPreprocessSingle /\ Fresh
    \/ InitLoadStageData /\ Fresh

NextRun ==
    \/ GpdFile
    \/ GpdReturn
    \/ CliLoad
    \/ CliFile
    \/ CliDone
    \/ CallLoadAllStages
    \/ CallLoadStageFiles
    \/ CallPreprocessSingle
    \/ CallLoadStageData

SpecRun == InitRun /\ [][NextRun]_vars

----------------------------------------------------------------------------
(* Properties of the runs *)

\* every timestamp of table t parses and t has a numeric column
ParseableAndNumeric(t) ==
    /\ "timestamp" \in Columns(t)
    /\ \A i \in 1..t.n : ToDatetime(t.col["timestamp"].v[i]) # Null
    /\ NumericCols(t) # {}

\* every stage subdirectory of run_dir holds CSV tables, all of that kind
GoodRunDir(run_dir) ==
    \A sd \in DOMAIN run_dir.stages :
        /\ DOMAIN run_dir.stages[sd] # {}
        /\ \A f \in DOMAIN run_dir.stages[sd] : ParseableAndNumeric(run_dir.stages[sd][f])

\* the indices of the steps that are calls of fn
CallsOf(fn) == {i \in 1..Len(steps) : steps[i].fn = fn}

\* C3: for a run directory whose stage subdirectories all hold CSV tables with
\* a parseable timestamp column and a numeric column, get_preprocessed_data
\* does not raise, and when it has finished it has returned a mapping with a
\* table for every stage subdirectory.
C3_GoodRunReturnsEveryStage ==
    (args.fn = "get_preprocessed_data" /\ GoodRunDir(fs.base[args.data_dir])) =>
        /\ pc # "raised"
        /\ pc = "done" =>
              /\ ret.err = "none"
              /\ DOMAIN ret.value = DOMAIN fs.base[args.data_dir].stages

FailsValidation(t, stage, schemas) ==
    /\ stage \in DOMAIN schemas
    /\ IsDataFrame(t)
    /\ \/ schemas[stage].key = "columns" /\ schemas[stage].names \ Columns(t) # {}
       \/ EmptyColumns(t) # {}
       \/ "timestamp" \in Columns(t) /\ ToDatetimeRaises(t.col["timestamp"])

\* the stage CSV files of run_dir that load_stage_files validates and finds
\* failing
FailingFiles(run_dir, schemas) ==
    {f \in DOMAIN run_dir.csvs :
        /\ IsStageCsv(f)
        /\ StageOfCsv(f) \in DOMAIN schemas
        /\ schemas[StageOfCsv(f)].key = "fields"
        /\ \/ schemas[StageOfCsv(f)].names \ Columns(run_dir.csvs[f]) # {}
           \/ /\ "timestamp" \in Columns(run_dir.csvs[f])
              /\ ToDatetimeRaises(run_dir.csvs[f].col["timestamp"])}

C8_ArtifactIsFittedScaler ==
    (args.fn = "get_preprocessed_data" /\ pc # "loop") =>
        \A i \in CallsOf("normalize_features") :
            steps[i].err = "none" =>
                /\ <<"scaler_joblib", steps[i].stage>> \in DOMAIN files
                /\ files[<<"scaler_joblib", steps[i].stage>>] = steps[i].scaler

\* C9: when load_all_stages returns for a base directory whose last entry (in
\* string order) has stage subdirectories, the mapping returned has one entry
\* for each of them, mapping the table names of the stage to its tables.
C9_LatestRunEveryStage ==
    (args.fn = "load_all_stages" /\ pc = "done" /\ ret.err = "none"
        /\ DOMAIN fs.base[LatestFolder(fs.base)].stages # {}) =>
        /\ DOMAIN ret.value = DOMAIN fs.base[LatestFolder(fs.base)].stages
        /\ \A sd \in DOMAIN ret.value :
              ret.value[sd] = fs.base[LatestFolder(fs.base)].stages[sd]

\* pd.read_csv of a file written by to_csv(index=False): the row count and
\* the column set of the table read back
ReadCsvShape(f) == [n |-> f.rows, columns |-> f.header]

\* C22: when a run of get_preprocessed_data over a run directory whose stage
\* subdirectories all hold CSV tables (one or more each) with a parseable
\* timestamp column and a numeric column is over, it has returned a table for
\* every stage, and the processed file of the stage, read back, has the row
\* count and the column set of that table.
C22_FileReadBackMatchesReturned ==
    (args.fn = "get_preprocessed_data" /\ GoodRunDir(fs.base[args.data_dir])
        /\ pc # "loop") =>
        /\ pc = "done"
        /\ ret.err = "none"
        /\ \A sd \in DOMAIN fs.base[args.data_dir].stages :
              /\ sd \in DOMAIN ret.value
              /\ <<"processed_csv", sd>> \in DOMAIN files
              /\ ReadCsvShape(files[<<"processed_csv", sd>>]) =
                    [n |-> ret.value[sd].n, columns |-> Columns(ret.value[sd])]

\* C23: when a run of get_preprocessed_data over a run directory whose stage
\* subdirectories all hold CSV tables with a parseable timestamp column and a
\* numeric column is over, it has returned, for every stage, a table that has
\* the columns timestamp, hour, day, weekday, month and
\* specific_power_consumption.
C23_ReturnedTablesHaveDerivedColumns ==
    (args.fn = "get_preprocessed_data" /\ GoodRunDir(fs.base[args.data_dir])
        /\ pc # "loop") =>
        /\ pc = "done"
        /\ \A sd \in DOMAIN fs.base[args.data_dir].stages :
              /\ sd \in DOMAIN ret.value
              /\ {"timestamp", "hour", "day", "weekday", "month",
                  "specific_power_consumption"} \subseteq Columns(ret.value[sd])

\* C24: when a run of get_preprocessed_data with the minmax method over such a
\* run directory is over, it has returned, for every stage, a table in which
\* no value of a numeric column is negative and no value of
\* specific_power_consumption is null.
C24_ReturnedValuesNonNegative ==
    (args.fn = "get_preprocessed_data" /\ args.normalize_method = "minmax"
        /\ GoodRunDir(fs.base[args.data_dir]) /\ pc # "loop") =>
        /\ pc = "done"
        /\ \A sd \in DOMAIN fs.base[args.data_dir].stages :
              /\ sd \in DOMAIN ret.value
              /\ \A c \in NumericCols(ret.value[sd]) :
                    \A i \in 1..ret.value[sd].n :
                        ret.value[sd].col[c].v[i] # Null =>
                            RLeq(<<0, 1>>, ret.value[sd].col[c].v[i])
              /\ "specific_power_consumption" \in Columns(ret.value[sd])
              /\ ~HasNull(ret.value[sd].col["specific_power_consumption"].v)

\* the stage directory of a call of load_stage_data
StageDirOfCall == fs.base[args.stage_dir[1]].stages[args.stage_dir[2]]

\* C25 (as amended): load_stage_data fails with FileNotFoundError exactly when
\* the directory holds no CSV file; when it holds CSV files that all load, it
\* returns a non-empty mapping whose keys are exactly their base names, each
\* with the table of its file; when one of its CSV files does not load (a file
\* with nothing in it), the call fails with the error of that load and
\* returns nothing.
C25_NoFilesOrLoadErrorOrAllFiles ==
    (args.fn = "load_stage_data" /\ pc = "done") =>
        /\ (ret.err = "FileNotFoundError") <=> (DOMAIN StageDirOfCall = {})
        /\ IF \E f \in DOMAIN StageDirOfCall : StageDirOfCall[f] = EmptyCsv
           THEN ret = [err |-> "EmptyDataError"]
           ELSE DOMAIN StageDirOfCall # {} =>
                   /\ ret.err = "none"
                   /\ DOMAIN ret.value = DOMAIN StageDirOfCall
                   /\ \A f \in DOMAIN ret.value : ret.value[f] = StageDirOfCall[f]

\* load_stage_data returned the tables of a directory with two CSV files
C25_ReturnedTwoTables ==
    /\ args.fn = "load_stage_data"
    /\ pc = "done"
    /\ ret.err = "none"
    /\ DOMAIN ret.value = CsvNames

\* C25 as stated: load_stage_data fails with FileNotFoundError exactly when
\* the directory holds no CSV file, and otherwise returns a non-empty mapping
\* whose keys are exactly the base names of the CSV files of the directory.
C25_ReturnsUnlessNoFiles ==
    (args.fn = "load_stage_data" /\ pc = "done") =>
        /\ (ret.err = "FileNotFoundError") <=> (DOMAIN StageDirOfCall = {})
        /\ DOMAIN StageDirOfCall # {} =>
              /\ ret.err = "none"
              /\ DOMAIN ret.value = DOMAIN StageDirOfCall

----------------------------------------------------------------------------
(* loaders.py: validate *)

\* mutant of Validate: the message lists every column the schema declares
ValidateListsDeclared(t, schema) ==
    IF schema.key # "fields" THEN [err |-> "KeyError"]
    ELSE IF schema.names \ Columns(t) # {}
    THEN [err |-> "none", ok |-> FALSE,
          msg |-> [text |-> "Missing columns", missing |-> schema.names]]
    ELSE IF EmptyColumns(t) # {}
    THEN [err |-> "none", ok |-> FALSE,
          msg |-> [text |-> "Empty columns", empty |-> EmptyColumns(t)]]
    ELSE IF "timestamp" \notin Columns(t) \/ ToDatetimeRaises(t.col["timestamp"])
    THEN [err |-> "none", ok |-> FALSE, msg |-> [text |-> "Timestamp parse error"]]
    ELSE [err |-> "none", ok |-> TRUE, msg |-> [text |-> "OK"]]

\* validate(df, schema) -> (ok, message).  df['timestamp'] stands inside the
\* try: for a table without that column the KeyError is caught like a parse
\* error.
Validate(t, schema) ==
    IF schema.key # "fields" THEN [err |-> "KeyError"]
    ELSE IF schema.names \ Columns(t) # {}
    THEN [err |-> "none", ok |-> FALSE,
          msg |-> [text |-> "Missing columns", missing |-> schema.names \ Columns(t)]]
    ELSE IF EmptyColumns(t) # {}
    THEN [err |-> "none", ok |-> FALSE,
          msg |-> [text |-> "Empty columns", empty |-> EmptyColumns(t)]]
    ELSE IF "timestamp" \notin Columns(t) \/ ToDatetimeRaises(t.col["timestamp"])
    THEN [err |-> "none", ok |-> FALSE, msg |-> [text |-> "Timestamp parse error"]]
    ELSE [err |-> "none", ok |-> TRUE, msg |-> [text |-> "OK"]]

----------------------------------------------------------------------------
(* Single calls of the transforms and of the validators *)

\* the thresholds detect_anomalies is called with; sqrt(1/2) is the z-score
\* of either value of a column of two different values
Thresholds == {<<-1, 1>>, <<0, 1>>, <<1, 2>>, <<1, 1, 2, 1>>, <<3, 4>>, <<3, 1>>}

\* the table of the KPI scenario: mill_power_kwh = [100, 200],
\* throughput_tph = [50, 50]
KpiExample ==
    MkTable(2, {"mill_power_kwh", "throughput_tph"}, <<>>,
            <<(<<100, 1>>), (<<200, 1>>)>>, <<(<<50, 1>>), (<<50, 1>>)>>)

\* the schema of the validation scenario, and a table that lacks its column b
AbSchema == [key |-> "fields", names |-> {"timestamp", "a", "b"}]

AbTable ==
    MkTable(MaxRows, {"timestamp", "a"},
            [i \in 1..MaxRows |-> <<"2025-09-17 23:10:01">>],
            <<>>, [i \in 1..MaxRows |-> <<MaxVal, 1>>])

\* schemas that declare columns without a timestamp
NoTimestampSchemas ==
    {[key |-> "fields", names |-> n] : n \in {{}, {"mill_power_kwh"}}}

CallArgs ==
    [fn : {"detect_anomalies"}, df : InputTables, threshold : Thresholds]
    \cup [fn : {"normalize_features"}, df : InputTables, method : NormalizeMethods]
    \cup [fn : {"fill_missing_values"}, df : InputTables, method : FillMethods]
    \cup [fn : {"create_kpis"}, df : InputTables \cup {KpiExample}]
    \cup [fn : {"add_time_features"}, df : InputTables, timestamp_col : {"timestamp"}]
    \cup [fn : {"clip_outliers"}, df : InputTables, columns : ClipChoices,
          lower_percentile : {1}, upper_percentile : {99}]
    \cup [fn : {"validate", "validate_schema"}, df : InputTables \cup {AbTable},
          schema : SchemaDocs \cup NoTimestampSchemas \cup {AbSchema}]
    \cup [fn : {"scale_features"}, df : InputTables, columns : ScaleChoices,
          method : NormalizeMethods]

InitCall ==
    /\ args \in CallArgs
    /\ ret = Pending
    /\ pc = "call"
    /\ df = Null
    /\ caller_df = Null
    /\ steps = <<>>
    /\ fs = Null
    /\ todo = {}
    /\ files = <<>>
    /\ processed_data = <<>>
    /\ log = <<>>
    /\ env \in IF args.fn = "clip_outliers" THEN {"nan", "IndexError"} ELSE {"nan"}
    /\ datasets = <<>>

\* what a call leaves alone: everything but its result
CallFrame ==
    /\ pc' = "done"
    /\ UNCHANGED <<args, df, caller_df, steps, fs, todo, files, processed_data, log, env,
                   datasets>>

DoDetectAnomalies ==
    /\ pc = "call"
    /\ args.fn = "detect_anomalies"
    /\ ret' = DetectAnomalies(args.df, args.threshold)
    /\ CallFrame

DoNormalizeFeatures ==
    /\ pc = "call"
    /\ args.fn = "normalize_features"
    /\ ret' = NormalizeFeatures(args.df, args.method)
    /\ CallFrame

DoFillMissingValues ==
    /\ pc = "call"
    /\ args.fn = "fill_missing_values"
    /\ ret' = FillMissingValues(args.df, args.method)
    /\ CallFrame

DoCreateKpis ==
    /\ pc = "call"
    /\ args.fn = "create_kpis"
    /\ ret' = CreateKpis(args.df)
    /\ CallFrame

DoAddTimeFeatures ==
    /\ pc = "call"
    /\ args.fn = "add_time_features"
    /\ ret' = AddTimeFeatures(args.df, args.timestamp_col)
    /\ CallFrame

DoClipOutliers ==
    /\ pc = "call"
    /\ args.fn = "clip_outliers"
    /\ ret' = ClipOutliers(args.df, args.columns, args.lower_percentile,
                           args.upper_percentile, env)
    /\ CallFrame

DoValidate ==
    /\ pc = "call"
    /\ args.fn = "validate"
    /\ ret' = Validate(args.df, args.schema)
    /\ CallFrame

DoValidateSchema ==
    /\ pc = "call"
    /\ args.fn = "validate_schema"
    /\ ret' = LoadersValidateSchema(args.df, args.schema)
    /\ CallFrame

DoScaleFeatures ==
    /\ pc = "call"
    /\ args.fn = "scale_features"
    /\ ret' = ScaleFeatures(args.df, args.columns, args.method)
    /\ CallFrame

NextCall ==
    \/ DoDetectAnomalies
    \/ DoNormalizeFeatures
    \/ DoFillMissingValues
    \/ DoCreateKpis
    \/ DoAddTimeFeatures
    \/ DoClipOutliers
    \/ DoValidate
    \/ DoValidateSchema
    \/ DoScaleFeatures

SpecCall == InitCall /\ [][NextCall]_vars

\* every transform: the single calls, and transform_pipeline step by step
InitTransforms == InitCall \/ InitPipeline

NextTransforms == NextCall \/ NextPipeline

SpecTransforms == InitTransforms /\ [][NextTransforms]_vars

----------------------------------------------------------------------------
(* Properties of the single calls *)

\* the rows of table t whose is_anomaly is True
FlaggedRows(t) == {i \in 1..t.n : t.col["is_anomaly"].v[i] = <<"True">>}

\* threshold a <= threshold b
ThresholdLeq(a, b) ==
    IF a[1] < 0 THEN (b[1] >= 0 \/ RLeq(ThresholdSquared(b), ThresholdSquared(a)))
    ELSE b[1] >= 0 /\ RLeq(ThresholdSquared(a), ThresholdSquared(b))

\* C11: detect_anomalies returns the table with the column is_anomaly added,
\* True in exactly the rows where some numeric column has a value x with
\* |x - mean| / std > threshold, strictly (mean and sample std of the column's
\* non-null values; never so for a null x, a std that is undefined or zero),
\* False in every other row, and False in every row of a table without
\* numeric columns.
C11_FlagsExactlyExceedingRows ==
    (args.fn = "detect_anomalies" /\ pc = "done") =>
        /\ ret.err = "none"
        /\ ret.df.n = args.df.n
        /\ Columns(ret.df) = Columns(args.df) \cup {"is_anomaly"}
        /\ \A i \in 1..args.df.n :
              /\ ret.df.col["is_anomaly"].v[i] \in {<<"True">>, <<"False">>}
              /\ i \in FlaggedRows(ret.df) <=>
                    \E c \in NumericCols(args.df) :
                        LET v   == args.df.col[c].v
                            var == Variance(v, 1)
                        IN  /\ v[i] # Null
                            /\ Len(DropNa(v)) >= 2
                            /\ var # <<0, 1>>
                            /\ \/ args.threshold[1] < 0
                               \/ RLess(RMul(ThresholdSquared(args.threshold), var),
                                        RMul(RSub(v[i], Mean(v)), RSub(v[i], Mean(v))))
        /\ NumericCols(args.df) = {} => FlaggedRows(ret.df) = {}

\* detect_anomalies flagged a row at a positive threshold
C11_FlaggedSomeRow ==
    /\ args.fn = "detect_anomalies"
    /\ pc = "done"
    /\ args.threshold = <<1, 2>>
    /\ FlaggedRows(ret.df) # {}

\* C12: for the table of a call of detect_anomalies and every threshold t2 at
\* or above the call's threshold, the rows flagged at t2 are among the rows the
\* call flagged.
C12_RaisingThresholdFlagsNoMore ==
    (args.fn = "detect_anomalies" /\ pc = "done") =>
        \A t2 \in Thresholds :
            ThresholdLeq(args.threshold, t2) =>
                FlaggedRows(DetectAnomalies(args.df, t2).df) \subseteq FlaggedRows(ret.df)

\* a call flagged rows that a higher threshold does not flag
C12_HigherThresholdFlagsFewer ==
    /\ args.fn = "detect_anomalies"
    /\ pc = "done"
    /\ FlaggedRows(ret.df) # {}
    /\ \E t2 \in Thresholds :
          /\ ThresholdLeq(args.threshold, t2)
          /\ FlaggedRows(DetectAnomalies(args.df, t2).df) = {}

C14_MissingColumnsReported ==
    (args.fn \in {"validate", "validate_schema"} /\ pc = "done"
        /\ args.schema.key = "fields"
        /\ \E c \in args.schema.names : c \notin Columns(args.df)) =>
        /\ ret.err = "none"
        /\ ret.ok = FALSE
        /\ ret.msg.text = "Missing columns"
        /\ ret.msg.missing = {c \in args.schema.names : c \notin Columns(args.df)}
        /\ (args.df = AbTable /\ args.schema = AbSchema) => ret.msg.missing = {"b"}

\* validate returned for the schema timestamp, a, b and the table lacking b
C14_ValidatedTableLackingB ==
    /\ args.fn = "validate"
    /\ pc = "done"
    /\ args.df = AbTable
    /\ args.schema = AbSchema
    /\ ret.ok = FALSE
    /\ ret.msg.missing = {"b"}

\* C15: validate accepts with (True, "OK") a table without a timestamp column
\* when the schema declares no timestamp, every declared column is present and
\* no column is entirely null.
C15_NoTimestampAccepted ==
    (args.fn = "validate" /\ pc = "done"
        /\ args.schema.key = "fields"
        /\ "timestamp" \notin args.schema.names
        /\ "timestamp" \notin Columns(args.df)
        /\ args.schema.names \subseteq Columns(args.df)
        /\ EmptyColumns(args.df) = {}) =>
        /\ ret.err = "none"
        /\ ret.ok = TRUE
        /\ ret.msg.text = "OK"

\* C16: fill_missing_values called with a method outside mean, median, zero,
\* and normalize_features called with a method outside minmax, standard,
\* raise the unsupported-method ValueError, whatever the table.
C16_UnsupportedMethodRejected ==
    /\ (args.fn = "fill_missing_values" /\ pc = "done"
          /\ args.method \notin {"mean", "median", "zero"}) => ret.err = "ValueError"
    /\ (args.fn = "normalize_features" /\ pc = "done"
          /\ args.method \notin {"minmax", "standard"}) => ret.err = "ValueError"

\* C17: create_kpis returns; when the table has both mill_power_kwh and
\* throughput_tph the result is the table with the column
\* specific_power_consumption added, in each row mill_power_kwh divided by
\* throughput_tph (100, 200 over 50, 50 give 2, 4), its other columns as they
\* were; when either column is absent the result equals the input.
C17_KpiIsPowerOverThroughput ==
    (args.fn = "create_kpis" /\ pc = "done") =>
        /\ ret.err = "none"
        /\ ret.df.n = args.df.n
        /\ \A c \in Columns(args.df) : ret.df.col[c] = args.df.col[c]
        /\ IF {"mill_power_kwh", "throughput_tph"} \subseteq Columns(args.df)
           THEN /\ Columns(ret.df) = Columns(args.df) \cup {"specific_power_consumption"}
                /\ \A i \in 1..args.df.n :
                      ret.df.col["specific_power_consumption"].v[i] =
                          CellDiv(args.df.col["mill_power_kwh"].v[i],
                                  args.df.col["throughput_tph"].v[i])
                /\ args.df.n > 0 =>
                      ret.df.col["specific_power_consumption"].root = <<1, 1>>
           ELSE ret.df = args.df
        /\ args.df = KpiExample =>
              ret.df.col["specific_power_consumption"].v = << <<2, 1>>, <<4, 1>> >>

\* create_kpis returned 2, 4 for 100, 200 over 50, 50
C17_KpiExampleGivesTwoAndFour ==
    /\ args.fn = "create_kpis"
    /\ pc = "done"
    /\ args.df = KpiExample
    /\ ret.df.col["specific_power_consumption"].v = << <<2, 1>>, <<4, 1>> >>

\* C18: add_time_features, called on a table with the timestamp column,
\* returns; each row whose timestamp parses has the hour, day, weekday and
\* month of that timestamp (23, 17, 2, 9 for Wednesday 2025-09-17 23:10:01 and
\* 0, 6, 0, 1 for Monday 2025-01-06 00:00:00), within 0..23, 1..31, 0..6 and
\* 1..12.
C18_TimeFieldsOfTheTimestamp ==
    (args.fn = "add_time_features" /\ pc = "done"
        /\ args.timestamp_col \in Columns(args.df)) =>
        /\ ret.err = "none"
        /\ \A i \in 1..args.df.n :
              LET s == args.df.col[args.timestamp_col].v[i]
                  f == [c \in {"hour", "day", "weekday", "month"} |-> ret.df.col[c].v[i]]
              IN  /\ s = <<"2025-09-17 23:10:01">> =>
                        /\ f["hour"] = <<23, 1>> /\ f["day"] = <<17, 1>>
                        /\ f["weekday"] = <<2, 1>> /\ f["month"] = <<9, 1>>
                  /\ s = <<"2025-01-06 00:00:00">> =>
                        /\ f["hour"] = <<0, 1>> /\ f["day"] = <<6, 1>>
                        /\ f["weekday"] = <<0, 1>> /\ f["month"] = <<1, 1>>
                  /\ s # <<"not-a-date">> =>
                        /\ f["hour"][2] = 1 /\ f["hour"][1] \in 0..23
                        /\ f["day"][2] = 1 /\ f["day"][1] \in 1..31
                        /\ f["weekday"][2] = 1 /\ f["weekday"][1] \in 0..6
                        /\ f["month"][2] = 1 /\ f["month"][1] \in 1..12

\* add_time_features returned for a table holding both parseable timestamps
C18_TwoTimestampsParsed ==
    /\ args.fn = "add_time_features"
    /\ pc = "done"
    /\ ret.err = "none"
    /\ \E i, j \in 1..args.df.n :
          /\ args.df.col["timestamp"].v[i] = <<"2025-09-17 23:10:01">>
          /\ args.df.col["timestamp"].v[j] = <<"2025-01-06 00:00:00">>
          /\ ret.df.col["hour"].v[i] = <<23, 1>>
          /\ ret.df.col["month"].v[j] = <<1, 1>>

\* C19: add_time_features, called on a table with the timestamp column,
\* returns a table with as many rows as the input, every other column of the
\* input unchanged cell by cell (so the rows stand in the input's order), and
\* null hour, day, weekday and month in each row whose timestamp does not
\* parse.
C19_EveryRowKeptInOrder ==
    (args.fn = "add_time_features" /\ pc = "done"
        /\ args.timestamp_col \in Columns(args.df)) =>
        /\ ret.err = "none"
        /\ ret.df.n = args.df.n
        /\ Columns(ret.df) = Columns(args.df) \cup {"hour", "day", "weekday", "month"}
        /\ \A c \in Columns(args.df) \ {args.timestamp_col} :
              ret.df.col[c] = args.df.col[c]
        /\ Len(ret.df.col[args.timestamp_col].v) = args.df.n
        /\ \A i \in 1..args.df.n :
              LET s == args.df.col[args.timestamp_col].v[i]
              IN  /\ (ret.df.col[args.timestamp_col].v[i] = Null) <=> (s = <<"not-a-date">>)
                  /\ s = <<"2025-09-17 23:10:01">> =>
                        ret.df.col[args.timestamp_col].v[i] = <<23, 17, 2, 9>>
                  /\ s = <<"2025-01-06 00:00:00">> =>
                        ret.df.col[args.timestamp_col].v[i] = <<0, 6, 0, 1>>
                  /\ s = <<"not-a-date">> =>
                        \A c \in {"hour", "day", "weekday", "month"} :
                            ret.df.col[c].v[i] = Null

\* add_time_features returned a table whose first row has a timestamp that
\* does not parse and null time fields, followed by a row that parsed
C19_UnparseableRowKept ==
    /\ args.fn = "add_time_features"
    /\ pc = "done"
    /\ ret.err = "none"
    /\ ret.df.n = MaxRows
    /\ args.df.col["timestamp"].v[1] = <<"not-a-date">>
    /\ ret.df.col["hour"].v[1] = Null
    /\ ret.df.col["hour"].v[2] = <<23, 1>>
    /\ "mill_power_kwh" \in Columns(ret.df)

\* the requested names that are columns of the table
ClipRequested == {c \in SeqRange(args.columns) : c \in Columns(args.df)}

\* column c of the call's table is numeric and has a non-null value
Clippable(c) == args.df.col[c].dtype = "num" /\ DropNa(args.df.col[c].v) # <<>>

\* every cell of column c of the result is the input cell brought into the
\* range between the lower and the upper percentile of the column's own
\* non-null values
ClippedIntoOwnRange(c) ==
    LET nn    == SortSeq(DropNa(args.df.col[c].v), RLess)
        lower == Percentile(nn, args.lower_percentile)
        upper == Percentile(nn, args.upper_percentile)
    IN  /\ ret.df.col[c].dtype = "num"
        /\ \A i \in 1..args.df.n :
              LET x == args.df.col[c].v[i]
                  y == ret.df.col[c].v[i]
              IN  IF x = Null THEN y = Null
                  ELSE /\ RLeq(lower, y) /\ RLeq(y, upper)
                       /\ (RLeq(lower, x) /\ RLeq(x, upper)) => y = x
                       /\ RLess(x, lower) => y = lower
                       /\ RLess(upper, x) => y = upper

----------------------------------------------------------------------------
(* Properties of all the transforms *)

Transforms == {"add_time_features", "normalize_features", "fill_missing_values",
               "detect_anomalies", "clip_outliers", "scale_features", "create_kpis"}

\* C21: when a call of add_time_features, normalize_features,
\* fill_missing_values, detect_anomalies, clip_outliers, scale_features or
\* create_kpis has ended, returning or raising, the table object it was given
\* is the table the caller passed; and at every moment of a call of
\* transform_pipeline, also after it returned or raised, the caller's table is
\* the table the caller passed.
C21_InputTableUntouched ==
    IF "fn" \in DOMAIN args
    THEN (args.fn \in Transforms /\ pc = "done") => ret.input = args.df
    ELSE caller_df = args.df

\* add_time_features returned a table with columns the caller's table, still
\* as passed, does not have
C21_ReturnedNewTable ==
    /\ "fn" \in DOMAIN args
    /\ args.fn = "add_time_features"
    /\ pc = "done"
    /\ ret.err = "none"
    /\ ret.input = args.df
    /\ "hour" \in Columns(ret.df)
    /\ "hour" \notin Columns(args.df)

----------------------------------------------------------------------------
(* models/registry.py, models/inference.py, services/recommender.py,
   services/controllers.py *)

\* the most seconds the clock shows, and the most models saved
MaxClock == 1
MaxSaves == 2

\* the characters of the file names, with their code points
Ord == [c \in {"_", ".", "0", "1", "2", "3", "4", "5", "6", "7", "8", "9",
               "b", "i", "j", "l", "o", "r", "s", "v"} |->
          CASE c = "." -> 46 [] c = "0" -> 48 [] c = "1" -> 49 [] c = "2" -> 50
            [] c = "3" -> 51 [] c = "4" -> 52 [] c = "5" -> 53 [] c = "6" -> 54
            [] c = "7" -> 55 [] c = "8" -> 56 [] c = "9" -> 57 [] c = "_" -> 95
            [] c = "b" -> 98 [] c = "i" -> 105 [] c = "j" -> 106 [] c = "l" -> 108
            [] c = "o" -> 111 [] c = "r" -> 114 [] c = "s" -> 115 [] c = "v" -> 118]

Digit(d) == CASE d = 0 -> "0" [] d = 1 -> "1" [] d = 2 -> "2" [] d = 3 -> "3"
              [] d = 4 -> "4" [] d = 5 -> "5" [] d = 6 -> "6" [] d = 7 -> "7"
              [] d = 8 -> "8" [] d = 9 -> "9"

\* datetime.now().strftime(...): fixed width, zero padded (the seconds field)
Strftime(now) == <<Digit(now \div 10), Digit(now % 10)>>

\* model names, character by character: "r", "r_v", "s"
ModelNames == {<<"r">>, <<"r", "_", "v">>, <<"s">>}

\* f"{name}_{timestamp}.joblib"
ModelFileName(name, now) ==
    name \o <<"_">> \o Strftime(now) \o <<".", "j", "o", "b", "l", "i", "b">>

\* str.startswith
StartsWith(f, prefix) ==
    Len(prefix) <= Len(f) /\ SubSeq(f, 1, Len(prefix)) = prefix

\* the code points of a string
Codes(f) == [i \in 1..Len(f) |-> Ord[f[i]]]

\* sorted(files)[-1]
LastSorted(names) ==
    CHOOSE x \in names : \A y \in names : y = x \/ LexLess(Codes(y), Codes(x))

\* a trained model: what it is and how many features it was fitted on
Models == {[id |-> "A", n_features |-> 1], [id |-> "B", n_features |-> 2]}

\* registry.py: load_model on the files of MODEL_DIR
LoadModel(model_dir, name) ==
    LET matching == {f \in DOMAIN model_dir : StartsWith(f, name)}
    IN  IF matching = {} THEN [err |-> "FileNotFoundError"]
        ELSE Value(model_dir[LastSorted(matching)])

\* model.predict(X): an estimator refuses a table whose number of columns is
\* not the number of features it was fitted on
ModelPredict(model, features) ==
    IF Cardinality(DOMAIN features) # model.n_features THEN [err |-> "ValueError"]
    ELSE Value(<<model.id>>)

\* inference.py: predict
Predict(model_dir, model_name, features) ==
    LET m == LoadModel(model_dir, model_name)
    IN  IF m.err # "none" THEN m ELSE ModelPredict(m.value, features)

\* the features of a request
FeatureDicts ==
    {EmptyDict, [k \in {"mill_load"} |-> 85], [k \in {"mill_load", "temperature"} |-> 85]}

\* controllers.py: get_model_prediction
GetModelPrediction(model_dir, model_name, features) ==
    LET preds == Predict(model_dir, model_name, features)
    IN  IF preds.err # "none" THEN Value([error |-> preds.err])
        ELSE Value([model |-> model_name, prediction |-> preds.value])

\* a parameter value: a number <<"num", x>> or a text <<"str", s>>
ParameterDicts ==
    {EmptyDict}
    \cup {[k \in {"mill_load"} |-> v] :
            v \in {<<"num", 65>>, <<"num", 95>>, <<"str", "high">>}}
    \cup {[k \in {"temperature"} |-> v] : v \in {<<"num", 1460>>}}
    \cup {[k \in {"energy"} |-> v] : v \in {<<"num", 1300>>}}

\* None passed where a dict is expected
NoneValue == [none |-> TRUE]

RecStages == {"raw_mill", "kiln", "utilities", "packing"}

\* parameters.get(key, default)
Get(parameters, key, default) ==
    IF key \in DOMAIN parameters THEN parameters[key] ELSE <<"num", default>>

\* recommender.py: generate_recommendation; a comparison of a text with a
\* number raises TypeError, .get on None raises AttributeError
GenerateRecommendation(stage, parameters) ==
    IF stage \notin {"raw_mill", "kiln", "utilities"}
    THEN Value([action |-> "Stage not recognized. No recommendation."])
    ELSE IF parameters = NoneValue THEN [err |-> "AttributeError"]
    ELSE LET x == IF stage = "raw_mill" THEN Get(parameters, "mill_load", 80)
                  ELSE IF stage = "kiln" THEN Get(parameters, "temperature", 1400)
                  ELSE Get(parameters, "energy", 1000)
         IN  IF x[1] # "num" THEN [err |-> "TypeError"]
             ELSE IF stage = "raw_mill"
             THEN Value([action |-> IF x[2] > 90 THEN "Reduce mill load by 5%"
                                    ELSE IF x[2] < 70 THEN "Increase mill load by 5%"
                                    ELSE "Mill load is optimal"])
             ELSE IF stage = "kiln"
             THEN Value([action |->
                          IF x[2] > 1450 THEN "Reduce burner temperature by 20C"
                          ELSE IF x[2] < 1350 THEN "Increase burner temperature by 20C"
                          ELSE "Kiln temperature is optimal"])
             ELSE Value([action |->
                          IF x[2] > 1200 THEN "Optimize fan/pump speed to reduce energy"
                          ELSE "Utility energy usage is within normal range"])

\* mutant of GetRecommendation: without the try, the error goes to the caller
GetRecommendationNoCatch(stage, parameters) ==
    LET recommendation == GenerateRecommendation(stage, parameters)
    IN  IF recommendation.err # "none" THEN recommendation
        ELSE Value([stage |-> stage, recommendation |-> recommendation.value])

\* controllers.py: get_recommendation
GetRecommendation(stage, parameters) ==
    LET recommendation == GenerateRecommendation(stage, parameters)
    IN  IF recommendation.err # "none" THEN Value([error |-> recommendation.err])
        ELSE Value([stage |-> stage, recommendation |-> recommendation.value])

\* The registry starts empty; fs holds MODEL_DIR (file name -> model) and the
\* clock, steps the save_model calls made so far.
InitServices ==
    /\ fs = [model_dir |-> EmptyDict, now |-> 0]
    /\ args = [fn |-> "none"]
    /\ ret = Pending
    /\ pc = "idle"
    /\ steps = <<>>
    /\ df = Null
    /\ caller_df = Null
    /\ todo = {}
    /\ files = EmptyDict
    /\ processed_data = EmptyDict
    /\ log = {}
    /\ env = "nan"
    /\ datasets = EmptyDict

ServicesFrame ==
    UNCHANGED <<pc, df, caller_df, todo, files, processed_data, log, env, datasets>>

\* a second passes
Tick ==
    /\ pc = "idle"
    /\ fs.now < MaxClock
    /\ fs' = [fs EXCEPT !.now = @ + 1]
    /\ UNCHANGED <<args, ret, steps>>
    /\ ServicesFrame

\* registry.py: save_model
SaveModel ==
    /\ pc = "idle"
    /\ Len(steps) < MaxSaves
    /\ \E model \in Models, name \in ModelNames :
          /\ args' = [fn |-> "save_model", model |-> model, name |-> name]
          /\ fs' = [fs EXCEPT !.model_dir = Put(@, ModelFileName(name, fs.now), model)]
          /\ steps' = Append(steps, [fn |-> "save_model", model |-> model, name |-> name])
          /\ ret' = Value(ModelFileName(name, fs.now))
    /\ ServicesFrame

CallLoadModel ==
    /\ pc = "idle"
    /\ \E name \in ModelNames :
          /\ args' = [fn |-> "load_model", name |-> name]
          /\ ret' = LoadModel(fs.model_dir, name)
    /\ UNCHANGED <<fs, steps>>
    /\ ServicesFrame

CallGetModelPrediction ==
    /\ pc = "idle"
    /\ \E model_name \in ModelNames, features \in FeatureDicts :
          /\ args' = [fn |-> "get_model_prediction", model_name |-> model_name,
                      features |-> features]
          /\ ret' = GetModelPrediction(fs.model_dir, model_name, features)
    /\ UNCHANGED <<fs, steps>>
    /\ ServicesFrame

CallGetRecommendation ==
    /\ pc = "idle"
    /\ \E stage \in RecStages, parameters \in ParameterDicts \cup {NoneValue} :
          /\ args' = [fn |-> "get_recommendation", stage |-> stage,
                      parameters |-> parameters]
          /\ ret' = GetRecommendation(stage, parameters)
    /\ UNCHANGED <<fs, steps>>
    /\ ServicesFrame

NextServices ==
    \/ Tick
    \/ SaveModel
    \/ CallLoadModel
    \/ CallGetModelPrediction
    \/ CallGetRecommendation

SpecServices == InitServices /\ [][NextServices]_vars

\* C26: a call of get_model_prediction or get_recommendation returns a dict
\* and never raises: when predicting (loading the model, model.predict) or
\* generating the recommendation raised, the dict is {"error": message of
\* that error} and nothing else; when it did not, the dict has no error key
\* and carries the prediction or the recommendation.
C26_ControllersNeverRaise ==
    /\ args.fn = "get_model_prediction" =>
          /\ ret.err = "none"
          /\ LET preds == Predict(fs.model_dir, args.model_name, args.features)
             IN  IF preds.err # "none"
                 THEN ret.value = [error |-> preds.err]
                 ELSE /\ "error" \notin DOMAIN ret.value
                      /\ ret.value.model = args.model_name
                      /\ ret.value.prediction = preds.value
    /\ args.fn = "get_recommendation" =>
          /\ ret.err = "none"
          /\ LET rec == GenerateRecommendation(args.stage, args.parameters)
             IN  IF rec.err # "none"
                 THEN ret.value = [error |-> rec.err]
                 ELSE /\ "error" \notin DOMAIN ret.value
                      /\ ret.value.stage = args.stage
                      /\ ret.value.recommendation = rec.value

\* get_recommendation returned the error of a comparison that raised
C26_RecommendationErrorReturned ==
    /\ args.fn = "get_recommendation"
    /\ args.stage = "raw_mill"
    /\ args.parameters = [k \in {"mill_load"} |-> <<"str", "high">>]
    /\ ret = Value([error |-> "TypeError"])

\* the save_model calls made under the name of the current call
SavedUnder(name) == {i \in 1..Len(steps) : steps[i].name = name}

\* C27: load_model(name) raises FileNotFoundError exactly when no model was
\* saved under that name, and otherwise returns the model of the last
\* save_model call made under exactly that name.
C27_LoadsLastSavedUnderName ==
    args.fn = "load_model" =>
        IF SavedUnder(args.name) = {}
        THEN ret.err = "FileNotFoundError"
        ELSE /\ ret.err = "none"
             /\ ret.value =
                  steps[CHOOSE i \in SavedUnder(args.name) :
                            \A j \in SavedUnder(args.name) : j <= i].model

----------------------------------------------------------------------------
(* Properties of transform_pipeline across tables *)

\* tables t1 and t2 have the same rows and columns and the same values
\* everywhere but in the timestamp column
DifferOnlyInTimestamps(t1, t2) ==
    /\ IsDataFrame(t1) /\ IsDataFrame(t2)
    /\ t1.n = t2.n
    /\ Columns(t1) = Columns(t2)
    /\ "timestamp" \in Columns(t1)
    /\ \A c \in Columns(t1) \ {"timestamp"} : t1.col[c] = t2.col[c]

\* C28: when transform_pipeline has returned for a table, it returns, under
\* the same arguments, the same is_anomaly flags for every table that differs
\* from it only in its timestamp values.
C28_FlagsIndependentOfTimestamps ==
    (pc = "done" /\ "is_anomaly" \in Columns(ret.df)) =>
        \A t2 \in PipelineTables :
            DifferOnlyInTimestamps(args.df, t2) =>
                \A r2 \in {TransformPipeline(t2, args, env)} :
                    r2.err = "none" => FlaggedRows(r2.df) = FlaggedRows(ret.df)

----------------------------------------------------------------------------
(* Properties of the three validators *)

\* C29: for the table and the schema document of a call of loaders.validate,
\* loaders.validate_schema and pipelines.validate_schema (the document being
\* the registry's entry for the stage) reach the verdict validate reached:
\* all three accept, or all three reject.
C29_ValidatorsAgree ==
    (args.fn = "validate" /\ pc = "done") =>
        LET accepts1 == ret.err = "none" /\ ret.ok
            r2       == LoadersValidateSchema(args.df, args.schema)
            accepts2 == r2.err = "none" /\ r2.ok
            r3       == PipelinesValidateSchema(args.df, "stage1_raw_materials",
                            [st \in {"stage1_raw_materials"} |-> args.schema])
            accepts3 == r3.err = "none"
        IN  accepts1 = accepts2 /\ accepts2 = accepts3

----------------------------------------------------------------------------
(* cloud_functions/vertex-ai-stage1-power-prediction-invoker/main.py *)

\* the most predictions the endpoint returns for a request
MaxPredictions == 2

\* one prediction as the endpoint returns it: a dict with a numeric value, a
\* dict without the key value, a dict whose value is a text, or a bare text
\* (written [text |-> ...])
Predictions ==
    {[value |-> v] : v \in {<<1, 1>>, <<3, 2>>, <<2, 1>>, <<"high">>}}
    \cup {EmptyDict, [text |-> "n/a"]}

\* what the endpoint does with a request: it raises, or returns predictions
EndpointResponses ==
    {[err |-> "GoogleAPICallError"]}
    \cup {Value(p) : p \in UNION {[1..n -> Predictions] : n \in 0..MaxPredictions}}

\* request.get_json(silent=True): None for a body that is no JSON, else the
\* payload, whose instances are a list of dicts
JsonBodies ==
    {NoneValue, EmptyDict, [k \in {"instances"} |-> <<>>],
     [k \in {"instances"} |-> <<EmptyDict>>],
     [k \in {"instances"} |-> <<[t \in {"timestamp"} |-> "2025-09-17 23:10:01"]>>]}

\* response.get('value') > 1.5 on one prediction: the comparison's outcome,
\* or the error it raises (a text has no .get, None and a text do not
\* compare with a number)
ExceedsLimit(response) ==
    IF "text" \in DOMAIN response THEN [err |-> "AttributeError"]
    ELSE IF "value" \notin DOMAIN response THEN [err |-> "TypeError"]
    ELSE IF Len(response.value) # 2 THEN [err |-> "TypeError"]
    ELSE Value(RLess(<<3, 2>>, response.value))

\* evaluate_efficiency: the predictions in order; the first one above the
\* limit ends the loop with True, the first one that raises ends it with False
RECURSIVE EvaluateEfficiency(_)
EvaluateEfficiency(predicted_response) ==
    IF predicted_response = <<>>
    THEN [degraded |-> FALSE, message |-> "within acceptable limits"]
    ELSE LET x == ExceedsLimit(Head(predicted_response))
         IN  IF x.err # "none"
             THEN [degraded |-> FALSE, message |-> "Error during efficiency evaluation"]
             ELSE IF x.value THEN [degraded |-> TRUE, message |-> "degraded"]
             ELSE EvaluateEfficiency(Tail(predicted_response))

\* predict_and_alert: the answer (body, status) and the messages published
PredictAndAlert(method, body, endpoint) ==
    IF method # "POST"
    THEN [answer |-> <<"Only POST requests are accepted", 405>>, published |-> <<>>]
    ELSE IF body = NoneValue \/ body = EmptyDict
    THEN [answer |-> <<"Invalid JSON payload", 400>>, published |-> <<>>]
    ELSE IF body["instances"] = <<>>
    THEN [answer |-> <<"Missing instances in request body", 400>>, published |-> <<>>]
    ELSE IF endpoint.err # "none"
    THEN [answer |-> <<"Error processing request", 500>>,
          published |-> <<[alert_type |-> "prediction_error"]>>]
    ELSE LET prediction_results == endpoint.value
             e == IF prediction_results # <<>>
                  THEN EvaluateEfficiency(prediction_results)
                  ELSE [degraded |-> FALSE, message |-> "None"]
         IN  IF e.degraded
             THEN [answer |-> <<[status |-> "prediction_processed",
                                 alert_triggered |-> TRUE,
                                 alert_message |-> e.message], 200>>,
                   published |-> <<[alert_type |-> "power_efficiency_degradation"]>>]
             ELSE [answer |-> <<[status |-> "prediction_processed",
                                 alert_triggered |-> FALSE], 200>>,
                   published |-> <<>>]

\* a request arrives; fs holds the topic, with nothing published yet
InitAlert ==
    /\ args \in [fn : {"predict_and_alert"}, method : {"POST", "GET"},
                 body : JsonBodies, endpoint : EndpointResponses]
    /\ fs = [topic |-> <<>>]
    /\ ret = Pending
    /\ pc = "call"
    /\ steps = <<>>
    /\ df = Null
    /\ caller_df = Null
    /\ todo = {}
    /\ files = EmptyDict
    /\ processed_data = EmptyDict
    /\ log = {}
    /\ env = "nan"
    /\ datasets = EmptyDict

CallPredictAndAlert ==
    /\ pc = "call"
    /\ args.fn = "predict_and_alert"
    /\ \E r \in {PredictAndAlert(args.method, args.body, args.endpoint)} :
          /\ ret' = Value(r.answer)
          /\ fs' = [fs EXCEPT !.topic = @ \o r.published]
    /\ pc' = "done"
    /\ UNCHANGED <<args, df, caller_df, steps, todo, files, processed_data, log, env,
                   datasets>>

SpecAlert == InitAlert /\ [][CallPredictAndAlert]_vars

\* the endpoint was asked and returned predictions
EndpointAnswered ==
    /\ args.method = "POST"
    /\ args.body # NoneValue
    /\ "instances" \in DOMAIN args.body
    /\ args.body["instances"] # <<>>
    /\ args.endpoint.err = "none"

\* some prediction returned by the endpoint has a value above 1.5
SomeValueAboveLimit ==
    \E i \in 1..Len(args.endpoint.value) :
        LET p == args.endpoint.value[i]
        IN  /\ "value" \in DOMAIN p
            /\ Len(p.value) = 2
            /\ RLess(<<3, 2>>, p.value)

\* C30: when the endpoint has returned its predictions, predict_and_alert has
\* published a power_efficiency_degradation alert and answered with
\* alert_triggered true if some prediction has a value above 1.5, and has
\* published nothing and answered with alert_triggered false if none has.
C30_AlertExactlyWhenAboveLimit ==
    (args.fn = "predict_and_alert" /\ pc = "done" /\ EndpointAnswered) =>
        IF SomeValueAboveLimit
        THEN /\ fs.topic = <<[alert_type |-> "power_efficiency_degradation"]>>
             /\ ret.value[1].alert_triggered = TRUE
        ELSE /\ fs.topic = <<>>
             /\ ret.value[1].alert_triggered = FALSE

====
